---- MODULE Spec2Model ----
(***************************************************************************)
(* State-machine model of the SIA-FKBA platform: event registration        *)
(* (single and bulk), the Asaas payment record service and webhook, and    *)
(* the matchmaking bracket engine.                                         *)
(***************************************************************************)
EXTENDS Integers, Sequences, FiniteSets, TLC

(***************************************************************************)
(* Bounds of the model                                                     *)
(***************************************************************************)
MaxRegs == 2     \* registrations the registration flows may create
MaxPaid == 1     \* registrations whose payment's life is followed
MaxGw == 2       \* payments the gateway may issue
MaxTime == 1     \* clock ticks
MaxRows == 2     \* athlete rows of one bulk submission
MaxAthletes == 3 \* registrations on file when brackets are generated
MaxRuns == 2     \* generation requests
MaxEntries == 5  \* entries of the bracket that is reordered by hand
MaxMatchPk == 20 \* primary keys of matches handed out before reordering stops
MaxSubscriber == 10 \* digits after the area code of a submitted WhatsApp number
MaxTokens == 3   \* weight tokens of the category an athlete is matched against
MaxGroup == 17   \* athletes of the group that is split into brackets
MaxFights == 3   \* max_fights_per_athlete of the metric the group is split with
MaxTreePk == 9   \* primary keys of matches handed out before the reordering of generated trees stops
MaxReseed == 3   \* entries of the bracket whose reordering is followed statement by statement

(***************************************************************************)
(* Values                                                                  *)
(***************************************************************************)
None == "<none>"
NoTime == -1
Absent == "<absent>"

PENDING == "PENDING"
RECEIVED == "RECEIVED"
CONFIRMED == "CONFIRMED"

\* Payment.Status (payments/models.py)
PaymentStatus ==
    { "PENDING", "AWAITING_RISK_ANALYSIS", "RECEIVED", "CONFIRMED", "OVERDUE",
      "REFUNDED", "REFUND_REQUESTED", "CHARGEBACK_REQUESTED",
      "CHARGEBACK_DISPUTE", "CHARGEBACK_REVERSED", "BANK_SLIP_VIEWED",
      "PAYMENT_DELETED", "UNKNOWN" }

\* AthleteRegistration.Status (events/models.py)
RegPending == "pending"
RegConfirmed == "confirmed"
RegCancelled == "cancelled"

\* gateway payment identifiers: issued by the gateway, or 'manual-<uuid>'
NoId == [kind |-> "none", n |-> 0]
GwId(n) == [kind |-> "pay", n |-> n]
ManualId(n) == [kind |-> "manual", n |-> n]
UnknownId == [kind |-> "pay", n |-> 99]

\* the events of the installation: a paid event, a free event that still
\* carries a fee, a free event without fee, and an unpublished event; the
\* deadline of the published ones passes when the clock leaves 0
StartAt == [year |-> 2025, month |-> 6, day |-> 15]
Events ==
    [ e \in 1..4 |->
        CASE e = 1 -> [is_free |-> FALSE, registration_fee |-> 100, is_published |-> TRUE,  registration_deadline |-> 0, start_at |-> StartAt]
          [] e = 2 -> [is_free |-> TRUE,  registration_fee |-> 50,  is_published |-> TRUE,  registration_deadline |-> 0, start_at |-> StartAt]
          [] e = 3 -> [is_free |-> TRUE,  registration_fee |-> 0,   is_published |-> TRUE,  registration_deadline |-> 0, start_at |-> StartAt]
          [] OTHER -> [is_free |-> FALSE, registration_fee |-> 100, is_published |-> FALSE, registration_deadline |-> 1, start_at |-> StartAt] ]
EventIds == DOMAIN Events

Cpfs == {"11111111111", "22222222222"}
AcademyNames == {"", "Team"}
CoachNames == {"Prof"}

VARIABLES
    now,            \* timezone.now()
    config,         \* ASAAS_API_KEY / ASAAS_API_BASE are configured
    webhookToken,   \* settings.ASAAS_WEBHOOK_TOKEN ('' when unset)
    registrations,  \* table AthleteRegistration: pk -> row
    payments,       \* table Payment: pk -> row
    academies,      \* table Academy (names)
    coaches,        \* table Coach (<<full_name, academy>>)
    nextRegPk,      \* primary-key sequence of AthleteRegistration
    nextPayPk,      \* primary-key sequence of Payment
    gwNext,         \* number of payments the gateway has issued
    issued,         \* gateway side: payment id number -> registration pk
    session,        \* the client's session
    inflight,       \* requests in flight, each with the statement it has reached
    last,           \* the request handled last and its response
    brackets,       \* table MatchmakingBracket: pk -> row
    entries,        \* table MatchmakingEntry: pk -> row
    matches,        \* table MatchmakingMatch: pk -> row
    nextBracketPk,  \* primary-key sequence of MatchmakingBracket
    nextEntryPk,    \* primary-key sequence of MatchmakingEntry
    nextMatchPk,    \* primary-key sequence of MatchmakingMatch
    metricRows,     \* table MatchmakingMetric: the pks on file
    result          \* what the last generation request returned

dbVars == <<registrations, payments, nextRegPk, nextPayPk>>
mmVars == <<brackets, entries, matches, nextBracketPk, nextEntryPk, nextMatchPk, metricRows, result>>
vars == <<now, config, webhookToken, registrations, payments, academies, coaches,
          nextRegPk, nextPayPk, gwNext, issued, session, inflight, last, mmVars>>

(***************************************************************************)
(* Rows                                                                    *)
(***************************************************************************)
\* the athlete data a registrant with a given document number submits
\* (weights in tenths of a kilogram)
Athlete(cpf) ==
    IF cpf = "11111111111"
    THEN [sex |-> "male", rule_set |-> "k1_light", weight_kg |-> 660,
          birth_date |-> [year |-> 2000, month |-> 1, day |-> 10], total_fights |-> 2]
    ELSE [sex |-> "female", rule_set |-> "k1_light", weight_kg |-> 580,
          birth_date |-> [year |-> 1998, month |-> 2, day |-> 20], total_fights |-> 6]

NewRegistration(e, cpf, status) ==
    [event |-> e, cpf |-> cpf, status |-> status,
     sex |-> Athlete(cpf).sex, rule_set |-> Athlete(cpf).rule_set,
     weight_kg |-> Athlete(cpf).weight_kg, birth_date |-> Athlete(cpf).birth_date,
     total_fights |-> Athlete(cpf).total_fights]

\* the stored payload snapshot: where it came from and its
\* manual_confirmation key
EmptyPayload == [source |-> "empty", manual |-> FALSE]

\* Payment.is_paid
IsPaid(p) == p.status \in {RECEIVED, CONFIRMED}

\* is_registration_open that looks at is_published only
IsRegistrationOpen_IgnoresDeadline(e, t) == Events[e].is_published

\* Event.is_registration_open
IsRegistrationOpen(e, t) ==
    IF ~Events[e].is_published THEN FALSE
    ELSE t <= Events[e].registration_deadline

\* the Payment rows of one registration (related_name='payment')
PaymentsOf(pays, r) == {p \in DOMAIN pays : pays[p].registration = r}

\* the Payment rows with a given gateway id
PaymentsById(pays, id) == {p \in DOMAIN pays : pays[p].asaas_payment_id = id}

Put(f, k, v) == [x \in DOMAIN f \cup {k} |-> IF x = k THEN v ELSE f[x]]

\* mark_as_paid without the cascade to the registration
MarkAsPaid_NoCascade(db, p, event_status, payload, t) ==
    LET st == IF event_status \in {None, ""} THEN RECEIVED ELSE event_status
    IN [db EXCEPT !.pays[p] = [@ EXCEPT !.status = st, !.paid_at = t, !.payload = payload]]

\* Payment.mark_as_paid on the tables db = [regs, pays, nextReg, nextPay]
MarkAsPaid(db, p, event_status, payload, t) ==
    LET st == IF event_status \in {None, ""} THEN RECEIVED ELSE event_status
        row == [db.pays[p] EXCEPT !.status = st, !.paid_at = t, !.payload = payload]
        r == db.pays[p].registration
    IN [db EXCEPT !.pays = [@ EXCEPT ![p] = row],
                  !.regs = [@ EXCEPT ![r].status = RegConfirmed]]

(***************************************************************************)
(* Webhook endpoint (payments/views.py)                                    *)
(***************************************************************************)
Bearer(t) == "Bearer " \o t

\* _has_valid_token that accepts any non-empty candidate
HasValidToken_AnyToken(headers, expected) ==
    IF expected = "" THEN TRUE
    ELSE \E i \in 1..3 : headers[i] \notin {Absent, ""}

\* _has_valid_token: the three candidate headers in order
HasValidToken(headers, expected) ==
    IF expected = "" THEN TRUE
    ELSE \E i \in 1..3 :
            /\ headers[i] \notin {Absent, ""}
            /\ (headers[i] = expected \/ headers[i] = Bearer(expected))

\* json.loads(body or '{}') and the selection of payment_data and its id
ParsePayload(body) ==
    CASE body.kind = "badjson" ->
            [exc |-> "JSONDecodeError", isdict |-> FALSE, id |-> NoId, status |-> None]
      [] body.kind \in {"list", "null"} ->
            [exc |-> "AttributeError", isdict |-> FALSE, id |-> NoId, status |-> None]
      [] body.kind = "empty" ->
            [exc |-> "none", isdict |-> TRUE, id |-> NoId, status |-> None]
      [] body.kind = "paymentscalar" ->
            [exc |-> "none", isdict |-> FALSE, id |-> NoId, status |-> None]
      [] OTHER ->
            [exc |-> "none", isdict |-> TRUE, id |-> body.id, status |-> body.status]

\* asaas_webhook: the response code and the tables after the request
WebhookResult(db, headers, body, expected, t) ==
    IF ~HasValidToken(headers, expected) THEN [code |-> 403, db |-> db, pay |-> 0]
    ELSE LET pd == ParsePayload(body) IN
         IF pd.exc = "JSONDecodeError" THEN [code |-> 400, db |-> db, pay |-> 0]
         ELSE IF pd.exc # "none" THEN [code |-> 500, db |-> db, pay |-> 0]
         ELSE IF pd.id = NoId THEN [code |-> 400, db |-> db, pay |-> 0]
         ELSE IF PaymentsById(db.pays, pd.id) = {} THEN [code |-> 404, db |-> db, pay |-> 0]
         ELSE LET p == CHOOSE x \in PaymentsById(db.pays, pd.id) : TRUE
                  payload == [source |-> "webhook", manual |-> FALSE]
              IN IF pd.status \in {RECEIVED, CONFIRMED}
                 THEN [code |-> 200, db |-> MarkAsPaid(db, p, pd.status, payload, t), pay |-> p]
                 ELSE [code |-> 200, pay |-> p,
                       db |-> [db EXCEPT !.pays[p].status = IF pd.status \in {None, ""} THEN @ ELSE pd.status,
                                         !.pays[p].payload = payload]]

(***************************************************************************)
(* Payment record service (payments/services.py)                           *)
(***************************************************************************)
\* create_payment_for_registration with create() in place of update_or_create()
CreatePaymentForRegistration_AlwaysCreate(st, r, outcome, gwStatus, cfg) ==
    IF ~cfg THEN [st EXCEPT !.exc = "MissingAsaasConfiguration"]
    ELSE IF outcome = "error" THEN [st EXCEPT !.exc = "AsaasAPIError", !.calls = @ + 1]
    ELSE LET n == st.gwNext + 1
             p == st.db.nextPay
         IN [st EXCEPT !.gwNext = n, !.issued = Put(@, n, r), !.calls = @ + 1,
                       !.db.nextPay = p + 1,
                       !.db.pays = Put(@, p,
                           [registration |-> r, asaas_payment_id |-> GwId(n),
                            status |-> IF gwStatus = "" THEN PENDING ELSE gwStatus,
                            paid_at |-> NoTime, invoice_url |-> n,
                            payload |-> [source |-> "gateway", manual |-> FALSE]])]

\* st = [db, gwNext, issued, calls, exc, newPks]: the tables inside the
\* running request, the gateway's side, the gateway calls made and the
\* exception raised so far
CreatePaymentForRegistration(st, r, outcome, gwStatus, cfg) ==
    IF ~cfg THEN [st EXCEPT !.exc = "MissingAsaasConfiguration"]
    ELSE IF outcome = "error" THEN [st EXCEPT !.exc = "AsaasAPIError", !.calls = @ + 1]
    ELSE LET n == st.gwNext + 1
             existing == PaymentsOf(st.db.pays, r)
             status == IF gwStatus = "" THEN PENDING ELSE gwStatus
             raw == [source |-> "gateway", manual |-> FALSE]
             gw == [st EXCEPT !.gwNext = n, !.issued = Put(@, n, r), !.calls = @ + 1]
         IN IF existing # {}
            THEN LET p == CHOOSE x \in existing : TRUE
                 IN [gw EXCEPT !.db.pays[p] =
                        [@ EXCEPT !.asaas_payment_id = GwId(n), !.status = status,
                                  !.invoice_url = n, !.payload = raw]]
            ELSE LET p == st.db.nextPay
                 IN [gw EXCEPT !.db.nextPay = p + 1,
                               !.db.pays = Put(@, p,
                                   [registration |-> r, asaas_payment_id |-> GwId(n),
                                    status |-> status, paid_at |-> NoTime,
                                    invoice_url |-> n, payload |-> raw])]

\* mark_registration_paid_manually that leaves the stored payload as it is
MarkRegistrationPaidManually_KeepPayload(db, r, t) ==
    LET existing == PaymentsOf(db.pays, r)
    IN IF existing # {}
       THEN LET p == CHOOSE x \in existing : TRUE
            IN MarkAsPaid(db, p, CONFIRMED, db.pays[p].payload, t)
       ELSE LET p == db.nextPay
            IN [db EXCEPT !.nextPay = p + 1,
                          !.pays = Put(@, p,
                              [registration |-> r, asaas_payment_id |-> ManualId(r),
                               status |-> CONFIRMED, paid_at |-> t, invoice_url |-> 0,
                               payload |-> [EmptyPayload EXCEPT !.manual = TRUE]]),
                          !.regs = [@ EXCEPT ![r].status = RegConfirmed]]

\* mark_registration_paid_manually on the tables db
MarkRegistrationPaidManually(db, r, t) ==
    LET existing == PaymentsOf(db.pays, r)
    IN IF existing # {}
       THEN LET p == CHOOSE x \in existing : TRUE
            IN MarkAsPaid(db, p, CONFIRMED, [db.pays[p].payload EXCEPT !.manual = TRUE], t)
       ELSE LET p == db.nextPay
            IN [db EXCEPT !.nextPay = p + 1,
                          !.pays = Put(@, p,
                              [registration |-> r, asaas_payment_id |-> ManualId(r),
                               status |-> CONFIRMED, paid_at |-> t, invoice_url |-> 0,
                               payload |-> [EmptyPayload EXCEPT !.manual = TRUE]]),
                          !.regs = [@ EXCEPT ![r].status = RegConfirmed]]

(***************************************************************************)
(* Registration forms and views (events/forms.py, events/views.py)         *)
(***************************************************************************)
\* a table without the unique_event_cpf constraint
UniqueViolation_Off(regs, e, cpf) == FALSE

\* the unique_event_cpf constraint of the table, checked by the database on insert
UniqueViolation(regs, e, cpf) ==
    /\ cpf # None
    /\ \E p \in DOMAIN regs : regs[p].event = e /\ regs[p].cpf = cpf

\* AthleteRegistrationForm.clean for one submitted form: the form's errors and
\* the Academy and Coach tables after the find-or-create calls
FormClean(f, e, cpf, acad, coach, regs, t) ==
    IF ~IsRegistrationOpen(e, t)
    THEN [f EXCEPT !.errors = @ \cup {"__all__"}]
    ELSE LET hasAcad == acad # ""
             acads == IF hasAcad THEN f.academies \cup {acad} ELSE f.academies
             cs == IF coach # "" /\ hasAcad THEN f.coaches \cup {<<coach, acad>>} ELSE f.coaches
             dup == cpf # "" /\ \E p \in DOMAIN regs : regs[p].event = e /\ regs[p].cpf = cpf
         IN [errors |-> f.errors \cup (IF hasAcad THEN {} ELSE {"academy_name"})
                                 \cup (IF coach = "" THEN {"coach_name"} ELSE {})
                                 \cup (IF dup THEN {"cpf"} ELSE {}),
             academies |-> acads, coaches |-> cs]

\* formset.is_valid(): every row form is cleaned in turn
RECURSIVE FormsetClean(_, _, _, _, _, _, _, _)
FormsetClean(f, e, rows, acad, coach, regs, t, i) ==
    IF i > Len(rows) THEN f
    ELSE FormsetClean(FormClean(f, e, rows[i], acad, coach, regs, t), e, rows, acad, coach, regs, t, i + 1)

\* the transaction body that takes a zero fee for 'free'
SaveRegistration_FreeByFee(st, e, cpf, outcome, gwStatus, cfg) ==
    IF UniqueViolation(st.db.regs, e, cpf) THEN [st EXCEPT !.exc = "IntegrityError"]
    ELSE LET r == st.db.nextReg
             free == Events[e].registration_fee = 0
             status == IF free THEN RegConfirmed ELSE RegPending
             saved == [st EXCEPT !.db.nextReg = r + 1,
                                 !.db.regs = Put(@, r, NewRegistration(e, cpf, status)),
                                 !.newPks = Append(@, r)]
         IN IF free THEN saved
            ELSE CreatePaymentForRegistration(saved, r, outcome, gwStatus, cfg)

\* the body of the transaction for one registration: save the row, then, for
\* a paid event, request its payment
SaveRegistration(st, e, cpf, outcome, gwStatus, cfg) ==
    IF UniqueViolation(st.db.regs, e, cpf) THEN [st EXCEPT !.exc = "IntegrityError"]
    ELSE LET r == st.db.nextReg
             status == IF Events[e].is_free THEN RegConfirmed ELSE RegPending
             saved == [st EXCEPT !.db.nextReg = r + 1,
                                 !.db.regs = Put(@, r, NewRegistration(e, cpf, status)),
                                 !.newPks = Append(@, r)]
         IN IF Events[e].is_free THEN saved
            ELSE CreatePaymentForRegistration(saved, r, outcome, gwStatus, cfg)

\* the loop over valid_forms inside transaction.atomic()
RECURSIVE SaveRows(_, _, _, _, _, _, _)
SaveRows(st, e, rows, outcomes, gwStatus, cfg, i) ==
    IF i > Len(rows) \/ st.exc # "none" THEN st
    ELSE SaveRows(SaveRegistration(st, e, rows[i], outcomes[i], gwStatus, cfg),
                  e, rows, outcomes, gwStatus, cfg, i + 1)

\* no transaction around the writes
Atomic_NoRollback(before, st) == st

\* transaction.atomic(): an exception leaving the block restores the
\* database; the gateway's side is not restored
Atomic(before, st) ==
    IF st.exc = "none" THEN st
    ELSE [st EXCEPT !.db = before.db]

(***************************************************************************)
(* Requests and responses                                                  *)
(***************************************************************************)
NoHeaders == <<Absent, Absent, Absent>>

\* what is recorded of the request handled last: the operation, its
\* response, and the description of its input the properties refer to
NoLast ==
    [op |-> "init", outcome |-> "", code |-> 0, event |-> 0, reg |-> 0, errors |-> {},
     newPks |-> <<>>, gwCalls |-> 0, auth |-> FALSE, shape |-> "", id |-> NoId,
     status |-> None, dup |-> FALSE, bracket |-> 0, order |-> <<>>,
     arg |-> <<>>, value |-> <<>>, hits |-> {}, view |-> "", user |-> "", ran |-> {}]
NoSession == [recent_registration_id |-> 0, recent_bulk_registration_ids |-> <<>>]
Idle == [pc |-> "idle", op |-> "", event |-> 0, rows |-> <<>>]
Workers == {1, 2}

EmptyForm == [errors |-> {}, academies |-> academies, coaches |-> coaches]

\* the state a request starts from
Start ==
    [db |-> [regs |-> registrations, pays |-> payments, nextReg |-> nextRegPk, nextPay |-> nextPayPk],
     gwNext |-> gwNext, issued |-> issued, calls |-> 0, exc |-> "none", newPks |-> <<>>]

\* the request's writes become the state
Store(st) ==
    /\ registrations' = st.db.regs
    /\ payments' = st.db.pays
    /\ nextRegPk' = st.db.nextReg
    /\ nextPayPk' = st.db.nextPay
    /\ gwNext' = st.gwNext
    /\ issued' = st.issued

\* the response of a registration view to the exception that left the
\* transaction: the two gateway errors are caught, any other is not
ExcOutcome(exc) ==
    CASE exc = "none" -> [outcome |-> "created", code |-> 302, errors |-> {}]
      [] exc = "MissingAsaasConfiguration" -> [outcome |-> "config_error", code |-> 200, errors |-> {"__all__"}]
      [] exc = "AsaasAPIError" -> [outcome |-> "gateway_error", code |-> 200, errors |-> {"__all__"}]
      [] OTHER -> [outcome |-> "unhandled", code |-> 500, errors |-> {}]

\* dispatch and form validation of the single registration view
SingleValidate(e, cpf, acad, coach) ==
    IF ~Events[e].is_published
    THEN EmptyForm @@ [outcome |-> "notfound", code |-> 404]
    ELSE IF ~IsRegistrationOpen(e, now)
    THEN EmptyForm @@ [outcome |-> "closed", code |-> 302]
    ELSE LET f == FormClean(EmptyForm, e, cpf, acad, coach, registrations, now)
         IN IF f.errors # {} THEN f @@ [outcome |-> "invalid", code |-> 200]
            ELSE f @@ [outcome |-> "valid", code |-> 0]

\* EventRegistrationView.form_valid
SingleFormValid(st, e, cpf, outcome, gwStatus) ==
    Atomic(st, SaveRegistration(st, e, cpf, outcome, gwStatus, config))

\* dispatch, shared form and formset validation of the bulk registration view
BulkValidate(e, rows, acad, coach) ==
    IF ~Events[e].is_published
    THEN EmptyForm @@ [outcome |-> "notfound", code |-> 404]
    ELSE IF ~IsRegistrationOpen(e, now)
    THEN EmptyForm @@ [outcome |-> "closed", code |-> 302]
    ELSE IF acad = "" \/ coach = ""
    THEN [EmptyForm EXCEPT !.errors = {"academy_name"}] @@ [outcome |-> "invalid", code |-> 200]
    ELSE LET f == FormsetClean(EmptyForm, e, rows, acad, coach, registrations, now, 1)
         IN IF f.errors # {} THEN f @@ [outcome |-> "invalid", code |-> 200]
            ELSE IF rows = <<>>
            THEN [f EXCEPT !.errors = {"__formset__"}] @@ [outcome |-> "invalid", code |-> 200]
            ELSE f @@ [outcome |-> "valid", code |-> 0]

\* the transaction of EventBulkRegistrationView.post
BulkFormValid(st, e, rows, outcomes, gwStatus) ==
    Atomic(st, SaveRows(st, e, rows, outcomes, gwStatus, config, 1))

GatewayOutcomes == {"ok", "error"}
GatewayCreateStatuses == {"PENDING", ""}
RowSeqs == UNION {[1..n -> Cpfs] : n \in 0..MaxRows}
\* the gateway's answers to the calls of one request: a request stops at the
\* first call that fails
OutcomeSeqs(n) ==
    {[i \in 1..n |-> "ok"]} \cup {[i \in 1..n |-> IF i = k THEN "error" ELSE "ok"] : k \in 1..n}

\* the submission carries a document number that the event already has, or
\* carries one twice
WouldDuplicate(e, rows) ==
    \/ \E i \in 1..Len(rows) : \E p \in DOMAIN registrations :
            registrations[p].event = e /\ registrations[p].cpf = rows[i]
    \/ \E i, j \in 1..Len(rows) : i # j /\ rows[i] = rows[j]

\* the submission names its academy and coach
IsComplete(acad, coach) == acad # "" /\ coach # ""

(***************************************************************************)
(* Actions: registration                                                   *)
(***************************************************************************)
Respond(op, v, e, rows, complete) ==
    /\ last' = [NoLast EXCEPT !.op = op, !.outcome = v.outcome, !.code = v.code,
                              !.event = e, !.errors = v.errors,
                              !.dup = complete /\ WouldDuplicate(e, rows)]
    /\ academies' = v.academies
    /\ coaches' = v.coaches

Finish(op, st, e, rows) ==
    LET o == ExcOutcome(st.exc)
    IN /\ Store(st)
       /\ last' = [NoLast EXCEPT !.op = op, !.outcome = o.outcome, !.code = o.code,
                                 !.event = e, !.errors = o.errors,
                                 !.newPks = st.newPks, !.gwCalls = st.calls,
                                 !.dup = WouldDuplicate(e, rows)]
       /\ session' =
            IF st.exc # "none" THEN session
            ELSE IF op = "single"
            THEN [session EXCEPT !.recent_registration_id = st.newPks[1]]
            ELSE [session EXCEPT !.recent_bulk_registration_ids = st.newPks]

HasRoom(n) == nextRegPk + n - 1 <= MaxRegs /\ gwNext + n <= MaxGw

\* POST to the single registration form, handled to completion
EventRegistrationView(e, cpf, acad, coach, outcome, gwStatus) ==
    /\ HasRoom(1)
    /\ LET v == SingleValidate(e, cpf, acad, coach)
       IN IF v.outcome # "valid"
          THEN /\ Respond("single", v, e, <<cpf>>, IsComplete(acad, coach))
               /\ UNCHANGED <<registrations, payments, nextRegPk, nextPayPk, gwNext, issued, session>>
          ELSE /\ Finish("single", SingleFormValid(Start, e, cpf, outcome, gwStatus), e, <<cpf>>)
               /\ academies' = v.academies
               /\ coaches' = v.coaches
    /\ UNCHANGED <<now, config, webhookToken, inflight, mmVars>>

\* POST to the bulk registration form, handled to completion
EventBulkRegistrationView(e, rows, acad, coach, outcomes, gwStatus) ==
    /\ HasRoom(Len(rows))
    /\ LET v == BulkValidate(e, rows, acad, coach)
       IN IF v.outcome # "valid"
          THEN /\ Respond("bulk", v, e, rows, IsComplete(acad, coach))
               /\ UNCHANGED <<registrations, payments, nextRegPk, nextPayPk, gwNext, issued, session>>
          ELSE /\ Finish("bulk", BulkFormValid(Start, e, rows, outcomes, gwStatus), e, rows)
               /\ academies' = v.academies
               /\ coaches' = v.coaches
    /\ UNCHANGED <<now, config, webhookToken, inflight, mmVars>>

(***************************************************************************)
(* Actions: payments                                                       *)
(***************************************************************************)
\* RegistrationPaymentActionView.post with action 'resend' (core/views.py)
StaffResendResult(st, r, outcome, gwStatus) ==
    LET c == CreatePaymentForRegistration(st, r, outcome, gwStatus, config)
    IN IF c.exc # "none" THEN c
       ELSE [c EXCEPT !.db.regs[r].status = RegPending]

\* AthleteRegistrationLookupView._handle_payment (events/views.py)
HandlePayment(st, r, outcome, gwStatus) ==
    IF Events[st.db.regs[r].event].is_free
    THEN [st EXCEPT !.db.regs[r].status = RegConfirmed]
    ELSE IF st.db.regs[r].status = RegConfirmed THEN st
    ELSE CreatePaymentForRegistration(st, r, outcome, gwStatus, config)

PaymentResponse(op, st, r) ==
    /\ Store(st)
    /\ last' = [NoLast EXCEPT !.op = op, !.code = 302,
                              !.outcome = IF st.exc = "none" THEN "ok" ELSE st.exc,
                              !.reg = r, !.event = registrations[r].event, !.gwCalls = st.calls]
    /\ UNCHANGED <<now, config, webhookToken, academies, coaches, session, inflight, mmVars>>

StaffResend(r, outcome, gwStatus) ==
    /\ gwNext < MaxGw
    /\ PaymentResponse("staff_resend", StaffResendResult(Start, r, outcome, gwStatus), r)

StaffManualConfirm(r) ==
    PaymentResponse("manual_confirm",
                    [Start EXCEPT !.db = MarkRegistrationPaidManually(@, r, now)], r)

SelfServiceResend(r, outcome, gwStatus) ==
    /\ gwNext < MaxGw
    /\ PaymentResponse("self_resend", HandlePayment(Start, r, outcome, gwStatus), r)

\* the header triples (X-Asaas-Token, asaas-access-token, Authorization) a
\* caller may send
HeaderChoices ==
    { NoHeaders,
      <<"token-123", Absent, Absent>>,
      <<Absent, "token-123", Absent>>,
      <<Absent, Absent, "Bearer token-123">>,
      <<"wrong", Absent, "token-123">>,
      <<"wrong", Absent, Absent>>,
      <<"", "wrong", "Bearer wrong">>,
      <<Absent, Absent, "Bearer ">> }

\* the bodies a caller may send
WebhookStatuses == {None, RECEIVED, CONFIRMED, "OVERDUE", "NOT_A_STATUS"}
StoredIds == {payments[p].asaas_payment_id : p \in DOMAIN payments}
SupersededIds == {GwId(n) : n \in DOMAIN issued} \ StoredIds
Bodies ==
    {[kind |-> k, id |-> NoId, status |-> None] : k \in {"badjson", "list", "null", "empty", "paymentscalar"}}
    \cup {[kind |-> "payment", id |-> i, status |-> s] : i \in StoredIds, s \in WebhookStatuses}
    \cup {[kind |-> "payment", id |-> i, status |-> RECEIVED] :
            i \in SupersededIds \cup {NoId, UnknownId}}
    \cup {[kind |-> k, id |-> i, status |-> RECEIVED] :
            k \in {"data", "bare"}, i \in StoredIds \cup {NoId}}

\* the requests a caller may send: every header triple with a notification
\* of a received payment, and every body with the token in the first header
WebhookRequests ==
    {<<h, b>> : h \in HeaderChoices,
                b \in {[kind |-> "payment", id |-> i, status |-> RECEIVED] : i \in StoredIds}}
    \cup {<<h, b>> : h \in {<<"token-123", Absent, Absent>>}, b \in Bodies}

\* the request carries the configured secret in one of the accepted forms
CarriesAcceptedToken(headers) ==
    \E i \in 1..3 : headers[i] \in {webhookToken, "Bearer " \o webhookToken}

\* what the body is, as JSON
BodyShape(body) ==
    IF body.kind = "badjson" THEN "badjson"
    ELSE IF body.kind \in {"list", "null"} THEN "nonobject"
    ELSE IF body.kind \in {"empty", "paymentscalar"} \/ body.id = NoId THEN "noid"
    ELSE IF \A p \in DOMAIN payments : payments[p].asaas_payment_id # body.id THEN "unknown"
    ELSE "found"

\* POST /pagamentos/webhooks/asaas/
AsaasWebhook(headers, body) ==
    LET res == WebhookResult(Start.db, headers, body, webhookToken, now)
    IN /\ registrations' = res.db.regs
       /\ payments' = res.db.pays
       /\ last' = LET auth == CarriesAcceptedToken(headers) \/ webhookToken = ""
                      found == auth /\ BodyShape(body) = "found"
                  IN [NoLast EXCEPT !.op = "webhook", !.code = res.code, !.auth = auth,
                                    !.shape = IF auth THEN BodyShape(body) ELSE "",
                                    !.id = IF found THEN body.id ELSE NoId,
                                    !.status = IF found THEN body.status ELSE None]
       /\ UNCHANGED <<now, config, webhookToken, academies, coaches, nextRegPk, nextPayPk,
                      gwNext, issued, session, inflight, mmVars>>

Tick ==
    /\ now < MaxTime
    /\ now' = now + 1
    /\ last' = [NoLast EXCEPT !.op = "tick"]
    /\ UNCHANGED <<config, webhookToken, registrations, payments, academies, coaches,
                   nextRegPk, nextPayPk, gwNext, issued, session, inflight, mmVars>>

(***************************************************************************)
(* Specification of the registration and payment flows, one request at a   *)
(* time                                                                    *)
(***************************************************************************)
EmptyFn == [x \in {} |-> 0]

\* the pks of the metrics staff have created
MetricPks == 1..3

\* no generation request yet: the fields of the result of
\* generate_brackets_for_event, and of the request that asked for it
NoResult ==
    [event |-> 0, metric |-> 0, replace_existing |-> FALSE, returned |-> FALSE, exc |-> "none", run |-> 0,
     brackets_created |-> 0, matches_created |-> 0, replaced |-> 0, unmatched |-> <<>>, groups |-> <<>>]

Init ==
    /\ now = 0
    /\ config \in BOOLEAN
    /\ webhookToken \in {"", "token-123"}
    /\ registrations = EmptyFn
    /\ payments = EmptyFn
    /\ academies = {}
    /\ coaches = {}
    /\ nextRegPk = 1
    /\ nextPayPk = 1
    /\ gwNext = 0
    /\ issued = EmptyFn
    /\ session = NoSession
    /\ inflight = [w \in Workers |-> Idle]
    /\ last = NoLast
    /\ brackets = EmptyFn
    /\ entries = EmptyFn
    /\ matches = EmptyFn
    /\ nextBracketPk = 1
    /\ nextEntryPk = 1
    /\ nextMatchPk = 1
    /\ metricRows = MetricPks
    /\ result = NoResult

\* the gateway is called for the registrations of a paid event only
AnswersFor(e, n) == IF Events[e].is_free THEN {[i \in 1..n |-> "ok"]} ELSE OutcomeSeqs(n)
CreateStatusesFor(e) == IF Events[e].is_free THEN {"PENDING"} ELSE GatewayCreateStatuses

Register ==
    \E e \in EventIds, cpf \in Cpfs, acad \in AcademyNames, coach \in CoachNames :
        \E outcomes \in AnswersFor(e, 1), gwStatus \in CreateStatusesFor(e) :
            EventRegistrationView(e, cpf, acad, coach, outcomes[1], gwStatus)

RegisterBulk ==
    \E e \in EventIds, rows \in RowSeqs, acad \in AcademyNames, coach \in CoachNames :
        \E outcomes \in AnswersFor(e, Len(rows)), gwStatus \in CreateStatusesFor(e) :
            EventBulkRegistrationView(e, rows, acad, coach, outcomes, gwStatus)

Resend ==
    \E r \in DOMAIN registrations, outcome \in GatewayOutcomes, gwStatus \in GatewayCreateStatuses :
        \/ StaffResend(r, outcome, gwStatus)
        \/ SelfServiceResend(r, outcome, gwStatus)

ManualConfirm == \E r \in DOMAIN registrations : StaffManualConfirm(r)

Webhook == \E req \in WebhookRequests : AsaasWebhook(req[1], req[2])

Next ==
    \/ Register
    \/ RegisterBulk
    \/ Tick

\* the registration flows never read the webhook's secret
InitRegistration == Init /\ webhookToken = "token-123"

Spec == InitRegistration /\ [][Next]_vars

(***************************************************************************)
(* Specification of the life of a payment: registrations are made one at   *)
(* a time, then resent, confirmed by hand and notified by the gateway      *)
(***************************************************************************)
PayEvents == {1, 2}

\* the n-th registrant's document number
CpfOfRegistrant(n) == IF n % 2 = 1 THEN "11111111111" ELSE "22222222222"

RegisterOne ==
    /\ nextRegPk <= MaxPaid
    /\ \E e \in PayEvents, outcome \in GatewayOutcomes, gwStatus \in GatewayCreateStatuses :
            EventRegistrationView(e, CpfOfRegistrant(nextRegPk), "Team", "Prof", outcome, gwStatus)

NextPay ==
    \/ RegisterOne
    \/ Resend
    \/ ManualConfirm
    \/ Webhook

\* a deployment has the gateway's key and the webhook's secret, or neither
InitPay == Init /\ (config <=> webhookToken # "")

SpecPay == InitPay /\ [][NextPay]_vars

(***************************************************************************)
(* Specification of concurrent registration requests: two workers, each    *)
(* request validated against the database and committed in a later step    *)
(***************************************************************************)
Pending(w) == inflight[w].pc = "validated"
RowsInFlight == Len(inflight[1].rows) + Len(inflight[2].rows)

\* dispatch and is_valid() of a request taken by worker w
ConcValidate(w, op, e, rows) ==
    /\ ~Pending(w)
    /\ HasRoom(RowsInFlight + Len(rows))
    /\ LET v == IF op = "single" THEN SingleValidate(e, rows[1], "Team", "Prof")
                ELSE BulkValidate(e, rows, "Team", "Prof")
       IN IF v.outcome # "valid"
          THEN /\ Respond(op, v, e, rows, TRUE)
               /\ UNCHANGED inflight
          ELSE /\ academies' = v.academies
               /\ coaches' = v.coaches
               /\ inflight' = [inflight EXCEPT ![w] = [pc |-> "validated", op |-> op, event |-> e, rows |-> rows]]
               /\ last' = [NoLast EXCEPT !.op = "validate", !.event = e]
    /\ UNCHANGED <<now, config, webhookToken, registrations, payments, nextRegPk, nextPayPk,
                   gwNext, issued, session, mmVars>>

\* form_valid of the request worker w holds
ConcCommit(w, outcomes, gwStatus) ==
    /\ Pending(w)
    /\ LET q == inflight[w]
       IN Finish(q.op,
                 IF q.op = "single"
                 THEN SingleFormValid(Start, q.event, q.rows[1], outcomes[1], gwStatus)
                 ELSE BulkFormValid(Start, q.event, q.rows, outcomes, gwStatus),
                 q.event, q.rows)
    /\ inflight' = [inflight EXCEPT ![w] = Idle]
    /\ UNCHANGED <<now, config, webhookToken, academies, coaches, mmVars>>

Validate ==
    \E w \in Workers, e \in EventIds :
        \/ \E cpf \in Cpfs : ConcValidate(w, "single", e, <<cpf>>)
        \/ \E rows \in RowSeqs : ConcValidate(w, "bulk", e, rows)

Commit ==
    \E w \in {x \in Workers : Pending(x)} :
        \E outcomes \in AnswersFor(inflight[w].event, Len(inflight[w].rows)),
           gwStatus \in CreateStatusesFor(inflight[w].event) :
            ConcCommit(w, outcomes, gwStatus)

NextConc ==
    \/ Validate
    \/ Commit

SpecConc == InitRegistration /\ [][NextConc]_vars

(***************************************************************************)
(* Matchmaking: metrics and classification (matchmaking/services.py)       *)
(***************************************************************************)
\* an optional value: <<>> for None, <<v>> for v
Nothing == <<>>
Just(v) == <<v>>

\* text that is parsed is a sequence of characters; weights are counted in
\* tenths of a kilogram
Digits == <<"0", "1", "2", "3", "4", "5", "6", "7", "8", "9">>
IsDigit(c) == \E d \in 1..10 : Digits[d] = c
DigitValue(c) == (CHOOSE d \in 1..10 : Digits[d] = c) - 1

\* the characters of the tokens in code-point order
Chars == <<" ", "+", ",", "-", ".", "0", "1", "2", "3", "4", "5", "6", "7", "8", "9",
           "G", "K", "a", "b", "c", "g", "k">>
CharRank(c) == CHOOSE i \in 1..Len(Chars) : Chars[i] = c

\* str.lower() on the characters of a token
LowerChar(c) == CASE c = "K" -> "k" [] c = "G" -> "g" [] OTHER -> c
LowerText(s) == [i \in 1..Len(s) |-> LowerChar(s[i])]

\* str.replace('kg', '')
RECURSIVE RemoveKg(_)
RemoveKg(s) ==
    IF Len(s) = 0 THEN s
    ELSE IF Len(s) >= 2 /\ s[1] = "k" /\ s[2] = "g" THEN RemoveKg(SubSeq(s, 3, Len(s)))
    ELSE <<s[1]>> \o RemoveKg(Tail(s))

\* str.replace(c, '')
Without(s, c) == SelectSeq(s, LAMBDA x : x # c)

\* str.replace(',', '.')
CommaToDot(s) == [i \in 1..Len(s) |-> IF s[i] = "," THEN "." ELSE s[i]]

\* str.strip()
RECURSIVE Strip(_)
Strip(s) ==
    IF Len(s) = 0 THEN s
    ELSE IF s[1] = " " THEN Strip(Tail(s))
    ELSE IF s[Len(s)] = " " THEN Strip(SubSeq(s, 1, Len(s) - 1))
    ELSE s

\* Decimal(text) accepts an optional sign, digits and at most one point
IsNumeral(s) ==
    LET body == IF Len(s) > 0 /\ s[1] = "-" THEN Tail(s) ELSE s
    IN /\ Len(SelectSeq(body, LAMBDA c : c = ".")) <= 1
       /\ \A i \in 1..Len(body) : IsDigit(body[i]) \/ body[i] = "."
       /\ \E i \in 1..Len(body) : IsDigit(body[i])

RECURSIVE DigitsValue(_)
DigitsValue(s) == IF Len(s) = 0 THEN 0 ELSE DigitsValue(SubSeq(s, 1, Len(s) - 1)) * 10 + DigitValue(s[Len(s)])

\* the value of a numeral in tenths (the tokens carry one decimal at most)
DecimalTenths(s) ==
    LET neg == Len(s) > 0 /\ s[1] = "-"
        body == IF neg THEN Tail(s) ELSE s
        p == IF \E i \in 1..Len(body) : body[i] = "."
             THEN CHOOSE i \in 1..Len(body) : body[i] = "."
             ELSE Len(body) + 1
        whole == DigitsValue(SubSeq(body, 1, p - 1))
        frac == SubSeq(body, p + 1, Len(body))
        v == whole * 10 + (IF Len(frac) > 0 THEN DigitValue(frac[1]) ELSE 0)
    IN IF neg THEN 0 - v ELSE v

\* _parse_weight_token
ParseWeightToken(token) ==
    LET cleaned == Without(RemoveKg(LowerText(token)), " ")
        is_plus == Len(cleaned) > 0 /\ (cleaned[1] = "+" \/ cleaned[Len(cleaned)] = "+")
        numeral == CommaToDot(Without(cleaned, "+"))
    IN IF Len(numeral) = 0 \/ ~IsNumeral(numeral)
       THEN [exc |-> "ClassificationError", value |-> 0, is_plus |-> is_plus]
       ELSE [exc |-> "none", value |-> DecimalTenths(numeral), is_plus |-> is_plus]

\* _build_weight_ranges: acc = [exc, ranges, previous_upper]
RECURSIVE BuildWeightRangesFrom(_, _, _)
BuildWeightRangesFrom(weights, i, acc) ==
    IF i > Len(weights) \/ acc.exc # "none" THEN acc
    ELSE LET token == Strip(weights[i])
             parsed == ParseWeightToken(token)
             lower == IF acc.previous_upper # Nothing THEN acc.previous_upper[1] ELSE 0
         IN IF Len(token) = 0 THEN BuildWeightRangesFrom(weights, i + 1, acc)
            ELSE IF parsed.exc # "none" THEN [acc EXCEPT !.exc = parsed.exc]
            ELSE BuildWeightRangesFrom(weights, i + 1,
                    [acc EXCEPT !.ranges = Append(@, [label |-> token, lower |-> lower,
                                                      upper |-> IF parsed.is_plus THEN Nothing
                                                                ELSE Just(parsed.value)]),
                                !.previous_upper = Just(parsed.value)])

BuildWeightRanges(weights) ==
    BuildWeightRangesFrom(weights, 1, [exc |-> "none", ranges |-> <<>>, previous_upper |-> Nothing])

\* WeightRange.contains with the lower bound included
WeightRangeContains_LowerIncluded(range, weight) ==
    IF range.upper = Nothing THEN weight >= range.lower
    ELSE range.lower <= weight /\ weight <= range.upper[1]

\* WeightRange.contains
WeightRangeContains(range, weight) ==
    IF range.upper = Nothing THEN weight > range.lower
    ELSE IF range.lower = 0 THEN weight <= range.upper[1]
    ELSE range.lower < weight /\ weight <= range.upper[1]

\* str.strip().lower() of the names a metric carries
LowerName(s) == CASE s = "K1 Light" -> "k1 light" [] s = "K1 Rules" -> "k1 rules" [] OTHER -> s

\* _build_metric_profile: the weight index as a sequence of <<key, ranges>>,
\* a later entry of the same key replacing the earlier one
RECURSIVE BuildWeightIndex(_, _, _)
BuildWeightIndex(categories, i, acc) ==
    IF i > Len(categories) \/ acc.exc # "none" THEN acc
    ELSE LET entry == categories[i]
             key == <<LowerName(entry.nome), LowerName(entry.sexo), entry.faixa_idade>>
             built == BuildWeightRanges(entry.faixas_peso)
         IN IF entry.nome = "" \/ entry.sexo = "" \/ entry.faixa_idade = "" \/ entry.faixas_peso = <<>>
            THEN BuildWeightIndex(categories, i + 1, acc)
            ELSE IF built.exc # "none" THEN [acc EXCEPT !.exc = built.exc]
            ELSE BuildWeightIndex(categories, i + 1,
                    [acc EXCEPT !.index = [k \in DOMAIN @ \cup {key} |->
                                              IF k = key THEN built.ranges ELSE @[k]]])

BuildMetricProfile(metric) ==
    LET w == BuildWeightIndex(metric.weight_categories, 1, [exc |-> "none", index |-> <<>>])
    IN [exc |-> w.exc, age_groups |-> metric.age_metrics,
        experience_groups |-> metric.experience_metrics, weight_index |-> w.index]

\* _age_on_date
AgeOnDate(birth_date, reference_date) ==
    LET years == reference_date.year - birth_date.year
    IN IF \/ reference_date.month < birth_date.month
          \/ (reference_date.month = birth_date.month /\ reference_date.day < birth_date.day)
       THEN years - 1
       ELSE years

\* _match_age_group: a bound that is missing or 0 falls back to 0 and 200
RECURSIVE MatchAgeGroup(_, _, _)
MatchAgeGroup(age_groups, i, age) ==
    IF i > Len(age_groups) THEN [exc |-> "ClassificationError", name |-> ""]
    ELSE LET group == age_groups[i]
             min_age == IF group.idade_minima \in {Nothing, Just(0)} THEN 0 ELSE group.idade_minima[1]
             max_age == IF group.idade_maxima \in {Nothing, Just(0)} THEN 200 ELSE group.idade_maxima[1]
         IN IF group.nome = "" THEN MatchAgeGroup(age_groups, i + 1, age)
            ELSE IF min_age <= age /\ age <= max_age THEN [exc |-> "none", name |-> group.nome]
            ELSE MatchAgeGroup(age_groups, i + 1, age)

\* _match_experience_group
RECURSIVE MatchExperienceGroup(_, _, _)
MatchExperienceGroup(experience_groups, i, total_fights) ==
    IF i > Len(experience_groups) THEN [exc |-> "ClassificationError", name |-> ""]
    ELSE LET group == experience_groups[i]
         IN IF group.nome = "" THEN MatchExperienceGroup(experience_groups, i + 1, total_fights)
            ELSE IF group.minimo_lutas # Nothing /\ total_fights < group.minimo_lutas[1]
            THEN MatchExperienceGroup(experience_groups, i + 1, total_fights)
            ELSE IF group.maximo_lutas # Nothing /\ total_fights > group.maximo_lutas[1]
            THEN MatchExperienceGroup(experience_groups, i + 1, total_fights)
            ELSE [exc |-> "none", name |-> group.nome]

\* _match_weight_group
MatchWeightGroup(weight_index, rule_set_label, sex_metric, age_group, weight) ==
    LET key == <<rule_set_label, sex_metric, age_group>>
        ranges == IF key \in DOMAIN weight_index THEN weight_index[key] ELSE <<>>
        hits == {i \in 1..Len(ranges) : WeightRangeContains(ranges[i], weight)}
    IN IF hits = {} THEN [exc |-> "ClassificationError", label |-> <<>>]
       ELSE [exc |-> "none", label |-> ranges[CHOOSE i \in hits : \A j \in hits : i <= j].label]

\* AthleteRegistration.get_rule_set_display
RuleSetDisplay(v) == CASE v = "k1_light" -> "K1 Light" [] v = "k1_rules" -> "K1 Rules" [] OTHER -> v

NoKey == <<"", "", "", "", <<>>>>

\* _classify_registration without the check of sex
ClassifyRegistration_AnySex(registration, profile, reference_date) ==
    LET age == MatchAgeGroup(profile.age_groups, 1, AgeOnDate(registration.birth_date, reference_date))
        experience == MatchExperienceGroup(profile.experience_groups, 1, registration.total_fights)
        sex_metric == IF registration.sex = "male" THEN "masculino" ELSE "feminino"
        weight == MatchWeightGroup(profile.weight_index, LowerName(RuleSetDisplay(registration.rule_set)),
                                   sex_metric, age.name, registration.weight_kg)
    IN IF registration.rule_set = "" THEN [exc |-> "ClassificationError", reason |-> "rule_set", key |-> NoKey]
       ELSE IF age.exc # "none" THEN [exc |-> age.exc, reason |-> "age", key |-> NoKey]
       ELSE IF experience.exc # "none" THEN [exc |-> experience.exc, reason |-> "experience", key |-> NoKey]
       ELSE IF weight.exc # "none" THEN [exc |-> weight.exc, reason |-> "weight", key |-> NoKey]
       ELSE [exc |-> "none", reason |-> "",
             key |-> <<registration.rule_set, experience.name, registration.sex, age.name, weight.label>>]

\* _classify_registration: the group key <<rule_set, experience_label, sex,
\* age_group, weight_label>>, or the reason for which the registration is
\* left out (weight_kg and birth_date are NOT NULL columns)
ClassifyRegistration(registration, profile, reference_date) ==
    LET age == MatchAgeGroup(profile.age_groups, 1, AgeOnDate(registration.birth_date, reference_date))
        experience == MatchExperienceGroup(profile.experience_groups, 1, registration.total_fights)
        sex_metric == IF registration.sex = "male" THEN "masculino" ELSE "feminino"
        weight == MatchWeightGroup(profile.weight_index, LowerName(RuleSetDisplay(registration.rule_set)),
                                   sex_metric, age.name, registration.weight_kg)
    IN IF registration.rule_set = "" THEN [exc |-> "ClassificationError", reason |-> "rule_set", key |-> NoKey]
       ELSE IF registration.sex \notin {"male", "female"}
       THEN [exc |-> "ClassificationError", reason |-> "sex", key |-> NoKey]
       ELSE IF age.exc # "none" THEN [exc |-> age.exc, reason |-> "age", key |-> NoKey]
       ELSE IF experience.exc # "none" THEN [exc |-> experience.exc, reason |-> "experience", key |-> NoKey]
       ELSE IF weight.exc # "none" THEN [exc |-> weight.exc, reason |-> "weight", key |-> NoKey]
       ELSE [exc |-> "none", reason |-> "",
             key |-> <<registration.rule_set, experience.name, registration.sex, age.name, weight.label>>]

\* _next_power_of_two
RECURSIVE Doubled(_, _)
Doubled(power, value) == IF power < value THEN Doubled(power * 2, value) ELSE power
NextPowerOfTwo(value) == IF value <= 1 THEN (IF value < 1 THEN 1 ELSE value) ELSE Doubled(1, value)

RECURSIVE Pow2(_)
Pow2(n) == IF n = 0 THEN 1 ELSE 2 * Pow2(n - 1)

\* _split_into_chunks without the care for a last chunk of one
SplitIntoChunks_NoRebalance(participants, capacity) ==
    LET cap == IF capacity <= 0 THEN 1 ELSE capacity
        n == Len(participants)
        m == (n + cap - 1) \div cap
    IN IF m = 0 THEN << <<>> >>
       ELSE [k \in 1..m |-> SubSeq(participants, (k - 1) * cap + 1, IF k * cap < n THEN k * cap ELSE n)]

\* _split_into_chunks
SplitIntoChunks(participants, capacity) ==
    LET cap == IF capacity <= 0 THEN 1 ELSE capacity
        n == Len(participants)
        m == (n + cap - 1) \div cap
        chunks == [k \in 1..m |-> SubSeq(participants, (k - 1) * cap + 1, IF k * cap < n THEN k * cap ELSE n)]
    IN IF m = 0 THEN << <<>> >>
       ELSE IF m > 1 /\ Len(chunks[m]) = 1
       THEN LET previous == chunks[m - 1]
                tail == chunks[m]
            IN IF Len(previous) > 2
               THEN [chunks EXCEPT ![m - 1] = SubSeq(previous, 1, Len(previous) - 1),
                                   ![m] = <<previous[Len(previous)]>> \o tail]
               ELSE IF Len(previous) + Len(tail) <= cap
               THEN [k \in 1..(m - 1) |-> IF k = m - 1 THEN previous \o tail ELSE chunks[k]]
               ELSE chunks
       ELSE chunks

(***************************************************************************)
(* Matchmaking: brackets, entries and match trees                          *)
(***************************************************************************)
\* the metrics of the installation: single-fight brackets, two-fight
\* brackets, and a metric saved with a weight token that is no number
AgeMetrics ==
    << [nome |-> "juvenil", idade_minima |-> Just(15), idade_maxima |-> Just(17)],
       [nome |-> "adulto", idade_minima |-> Just(18), idade_maxima |-> Just(40)] >>
ExperienceMetrics ==
    << [nome |-> "iniciante", minimo_lutas |-> Nothing, maximo_lutas |-> Just(4)],
       [nome |-> "avancado", minimo_lutas |-> Just(5), maximo_lutas |-> Nothing] >>
WeightCategories ==
    << [nome |-> "K1 Light", sexo |-> "masculino", faixa_idade |-> "adulto",
        faixas_peso |-> << <<"6", "3">>, <<"6", "9">>, <<"+", "6", "9">> >>],
       [nome |-> "K1 Light", sexo |-> "feminino", faixa_idade |-> "adulto",
        faixas_peso |-> << <<"6", "0", "k", "g">>, <<" ", "6", "5", ",", "5">> >>] >>
BrokenWeightCategories ==
    << [nome |-> "K1 Light", sexo |-> "masculino", faixa_idade |-> "adulto",
        faixas_peso |-> << <<"6", "3">>, <<"a", "b", "c">> >>] >>
Metrics ==
    [ m \in 1..3 |->
        [max_fights_per_athlete |-> IF m = 2 THEN 3 ELSE 1,
         age_metrics |-> AgeMetrics,
         experience_metrics |-> ExperienceMetrics,
         weight_categories |-> IF m = 3 THEN BrokenWeightCategories ELSE WeightCategories] ]
MetricIds == DOMAIN Metrics

\* the values of the group keys in the order of Python's string comparison
NameOrder == <<"adulto", "avancado", "female", "iniciante", "juvenil", "k1_light", "k1_rules", "male">>
NameRank(s) == CHOOSE i \in 1..Len(NameOrder) : NameOrder[i] = s

RECURSIVE TextLess(_, _)
TextLess(a, b) ==
    IF Len(a) = 0 THEN Len(b) > 0
    ELSE IF Len(b) = 0 THEN FALSE
    ELSE IF a[1] # b[1] THEN CharRank(a[1]) < CharRank(b[1])
    ELSE TextLess(Tail(a), Tail(b))

\* the order sorted() gives the group keys
KeyLess(a, b) ==
    IF a[1] # b[1] THEN NameRank(a[1]) < NameRank(b[1])
    ELSE IF a[2] # b[2] THEN NameRank(a[2]) < NameRank(b[2])
    ELSE IF a[3] # b[3] THEN NameRank(a[3]) < NameRank(b[3])
    ELSE IF a[4] # b[4] THEN NameRank(a[4]) < NameRank(b[4])
    ELSE TextLess(a[5], b[5])

RECURSIVE SortedKeys(_)
SortedKeys(S) ==
    IF S = {} THEN <<>>
    ELSE LET k == CHOOSE x \in S : \A y \in S \ {x} : KeyLess(x, y)
         IN <<k>> \o SortedKeys(S \ {k})

\* a set of primary keys in ascending order
RECURSIVE Ascending(_)
Ascending(S) ==
    IF S = {} THEN <<>>
    ELSE LET k == CHOOSE x \in S : \A y \in S : x <= y
         IN <<k>> \o Ascending(S \ {k})

DateLess(a, b) ==
    \/ a.year < b.year
    \/ a.year = b.year /\ a.month < b.month
    \/ a.year = b.year /\ a.month = b.month /\ a.day < b.day

\* the sort key without the weight
SeedsBefore_NoWeight(regs, p, q) ==
    IF regs[p].birth_date # regs[q].birth_date THEN DateLess(regs[p].birth_date, regs[q].birth_date)
    ELSE p < q

\* the sort key (weight_kg, birth_date, pk) of the participants of a group
SeedsBefore(regs, p, q) ==
    IF regs[p].weight_kg # regs[q].weight_kg THEN regs[p].weight_kg < regs[q].weight_kg
    ELSE IF regs[p].birth_date # regs[q].birth_date THEN DateLess(regs[p].birth_date, regs[q].birth_date)
    ELSE p < q

RECURSIVE SortedParticipants(_, _)
SortedParticipants(regs, S) ==
    IF S = {} THEN <<>>
    ELSE LET k == CHOOSE x \in S : \A y \in S \ {x} : SeedsBefore(regs, x, y)
         IN <<k>> \o SortedParticipants(regs, S \ {k})

EntriesOf(ents, b) == {x \in DOMAIN ents : ents[x].bracket = b}
MatchesOf(ms, b) == {x \in DOMAIN ms : ms[x].bracket = b}
Drop(f, S) == [x \in DOMAIN f \ S |-> f[x]]

\* the later rounds of _build_matches_for_bracket: current holds the
\* matches of the round before, acc = [mdb, count]
RECURSIVE BuildLaterRounds(_, _, _, _)
BuildLaterRounds(acc, b, current, round_number) ==
    IF Len(current) <= 1 THEN acc
    ELSE LET n == (Len(current) + 1) \div 2
             first == acc.mdb.nextMatch
             Row(i) ==
                LET blue_source == current[2 * i - 1]
                    red_source == IF 2 * i <= Len(current) THEN current[2 * i] ELSE 0
                IN [bracket |-> b, round_number |-> round_number, position |-> i,
                    blue_source_match |-> blue_source, red_source_match |-> red_source,
                    blue_entry |-> acc.mdb.matches[blue_source].winner_entry,
                    red_entry |-> IF red_source = 0 THEN 0 ELSE acc.mdb.matches[red_source].winner_entry,
                    winner_entry |-> 0, is_bye |-> FALSE]
             ms == acc.mdb.matches
             next == [acc EXCEPT !.mdb.matches = [x \in DOMAIN ms \cup (first..(first + n - 1)) |->
                                                    IF x \in DOMAIN ms THEN ms[x] ELSE Row(x - first + 1)],
                                 !.mdb.nextMatch = first + n,
                                 !.count = @ + n]
         IN BuildLaterRounds(next, b, [i \in 1..n |-> first + i - 1], round_number + 1)

\* a bye whose winner is left unset
ByeWinner_Unset(is_bye, blue, red) == 0

\* match.winner_entry = blue or red, for a bye
ByeWinner(is_bye, blue, red) == IF is_bye THEN (IF blue # 0 THEN blue ELSE red) ELSE 0

\* _build_matches_for_bracket on mdb = [brackets, entries, matches,
\* nextBracket, nextEntry, nextMatch]: the tables after it and the number
\* of matches created
BuildMatchesForBracket(mdb, b) ==
    LET cleared == [mdb EXCEPT !.matches = Drop(@, MatchesOf(@, b))]
        es == EntriesOf(mdb.entries, b)
        n == Cardinality(es)
        wanted == NextPowerOfTwo(n)
        size == IF mdb.brackets[b].size > wanted THEN mdb.brackets[b].size ELSE wanted
        sized == [cleared EXCEPT !.brackets[b].size = size]
        Slot(s) == IF s <= size /\ \E x \in es : mdb.entries[x].slot = s
                   THEN CHOOSE x \in es : mdb.entries[x].slot = s
                   ELSE 0
        pairs == SelectSeq([k \in 1..((size + 1) \div 2) |-> k],
                           LAMBDA k : Slot(2 * k - 1) # 0 \/ Slot(2 * k) # 0)
        first == sized.nextMatch
        Row(i) ==
            LET blue == Slot(2 * pairs[i] - 1)
                red == Slot(2 * pairs[i])
                is_bye == (blue # 0) # (red # 0)
            IN [bracket |-> b, round_number |-> 1, position |-> i,
                blue_source_match |-> 0, red_source_match |-> 0,
                blue_entry |-> blue, red_entry |-> red,
                winner_entry |-> ByeWinner(is_bye, blue, red),
                is_bye |-> is_bye]
        ms == sized.matches
        round1 == [sized EXCEPT !.matches = [x \in DOMAIN ms \cup (first..(first + Len(pairs) - 1)) |->
                                               IF x \in DOMAIN ms THEN ms[x] ELSE Row(x - first + 1)],
                                !.nextMatch = first + Len(pairs)]
    IN IF n <= 1 THEN [mdb |-> cleared, count |-> 0]
       ELSE BuildLaterRounds([mdb |-> round1, count |-> Len(pairs)], b,
                             [i \in 1..Len(pairs) |-> first + i - 1], 2)

\* the brackets of one chunk after the other: st = [mdb, exc, created,
\* matches_created, groups]
RECURSIVE CreateBrackets(_, _, _, _, _, _)
CreateBrackets(st, e, m, key, chunks, index) ==
    IF index > Len(chunks) \/ st.exc # "none" THEN st
    ELSE LET chunk == chunks[index]
             size == IF Len(chunk) > 1 THEN NextPowerOfTwo(Len(chunk)) ELSE Len(chunk)
             row == [event |-> e, metric |-> m, rule_set |-> key[1], experience_label |-> key[2],
                     sex |-> key[3], age_group |-> key[4], weight_label |-> key[5],
                     bracket_index |-> index, size |-> IF size = 0 THEN 1 ELSE size,
                     max_fights |-> Metrics[m].max_fights_per_athlete, is_manual |-> FALSE]
             Same(x) == /\ x.event = e /\ x.metric = m /\ x.rule_set = key[1]
                        /\ x.experience_label = key[2] /\ x.sex = key[3] /\ x.age_group = key[4]
                        /\ x.weight_label = key[5] /\ x.bracket_index = index
             b == st.mdb.nextBracket
             first == st.mdb.nextEntry
             ents == st.mdb.entries
             filled == [st.mdb EXCEPT
                          !.brackets = Put(@, b, row),
                          !.nextBracket = b + 1,
                          !.entries = [x \in DOMAIN ents \cup (first..(first + Len(chunk) - 1)) |->
                                          IF x \in DOMAIN ents THEN ents[x]
                                          ELSE [bracket |-> b, registration |-> chunk[x - first + 1],
                                                seed |-> x - first + 1, slot |-> x - first + 1]],
                          !.nextEntry = first + Len(chunk)]
             built == BuildMatchesForBracket(filled, b)
         IN IF \E x \in DOMAIN st.mdb.brackets : Same(st.mdb.brackets[x])
            THEN [st EXCEPT !.exc = "IntegrityError"]
            ELSE CreateBrackets([st EXCEPT !.mdb = built.mdb, !.created = @ + 1,
                                           !.matches_created = @ + built.count],
                                e, m, key, chunks, index + 1)

\* a capacity of one power of two too many
ChunksOfGroup_DoubleCapacity(sorted_participants, fights) ==
    SplitIntoChunks(sorted_participants, 2 * Pow2(fights))

\* capacity = max(1, 2 ** metric.max_fights_per_athlete) and the chunks of
\* a sorted group
ChunksOfGroup(sorted_participants, fights) ==
    SplitIntoChunks(sorted_participants, IF Pow2(fights) < 1 THEN 1 ELSE Pow2(fights))

\* the groups in sorted key order
RECURSIVE CreateGroups(_, _, _, _, _, _)
CreateGroups(st, regs, e, m, keys, grouped) ==
    IF Len(keys) = 0 \/ st.exc # "none" THEN st
    ELSE LET key == Head(keys)
             sorted_participants == SortedParticipants(regs, grouped[key])
             chunks == ChunksOfGroup(sorted_participants, Metrics[m].max_fights_per_athlete)
             done == CreateBrackets(st, e, m, key, chunks, 1)
         IN CreateGroups([done EXCEPT !.groups = Append(@, [key |-> key,
                                                             athlete_count |-> Len(sorted_participants),
                                                             bracket_count |-> Len(chunks)])],
                         regs, e, m, Tail(keys), grouped)

\* the confirmed registrations of the event in order of creation, each
\* with what _classify_registration makes of it
ClassifyConfirmed(regs, e, profile) ==
    LET confirmed == Ascending({r \in DOMAIN regs : regs[r].event = e /\ regs[r].status = RegConfirmed})
    IN [i \in 1..Len(confirmed) |->
           [registration |-> confirmed[i],
            classified |-> ClassifyRegistration(regs[confirmed[i]], profile, Events[e].start_at)]]

\* the list unmatched: the registrations whose classification raised
Unmatched(all) ==
    LET out == Ascending({i \in DOMAIN all : all[i].classified.exc # "none"})
    IN [j \in 1..Len(out) |-> [registration_id |-> all[out[j]].registration,
                               reason |-> all[out[j]].classified.reason]]

\* the dictionary grouped: group key -> the registrations classified into it
Grouped(all) ==
    LET placed == {i \in DOMAIN all : all[i].classified.exc = "none"}
    IN [k \in {all[i].classified.key : i \in placed} |->
           {all[i].registration : i \in {x \in placed : all[x].classified.key = k}}]

\* existing_qs: the brackets a replacing run deletes
ExistingBrackets(mdb, e, m, replace_existing) ==
    IF replace_existing
    THEN {b \in DOMAIN mdb.brackets : mdb.brackets[b].event = e /\ mdb.brackets[b].metric = m}
    ELSE {}

\* existing_qs.delete(): entries and matches go with their bracket
DeleteBrackets(mdb, existing) ==
    [mdb EXCEPT !.brackets = Drop(@, existing),
                !.entries = Drop(@, {x \in DOMAIN @ : @[x].bracket \in existing}),
                !.matches = Drop(@, {x \in DOMAIN @ : @[x].bracket \in existing})]

\* the end of generate_brackets_for_event: an exception inside the
\* transaction restores the tables, otherwise the summary is returned
GenerationResult(mdb, run, existing, all) ==
    IF run.exc # "none" THEN [exc |-> run.exc, mdb |-> mdb, result |-> NoResult]
    ELSE [exc |-> "none", mdb |-> run.mdb,
          result |-> [NoResult EXCEPT !.returned = TRUE,
                                      !.brackets_created = run.created,
                                      !.matches_created = run.matches_created,
                                      !.replaced = Cardinality(existing),
                                      !.unmatched = Unmatched(all),
                                      !.groups = run.groups]]

\* the transaction of generate_brackets_for_event, then its result
GenerateFrom(mdb, regs, e, m, existing, all, grouped) ==
    GenerationResult(mdb,
                     CreateGroups([mdb |-> DeleteBrackets(mdb, existing), exc |-> "none", created |-> 0,
                                   matches_created |-> 0, groups |-> <<>>],
                                  regs, e, m, SortedKeys(DOMAIN grouped), grouped),
                     existing, all)

\* what follows the metric profile in generate_brackets_for_event
GenerateWithProfile(mdb, regs, e, m, replace_existing, all) ==
    GenerateFrom(mdb, regs, e, m, ExistingBrackets(mdb, e, m, replace_existing), all, Grouped(all))

\* generate_brackets_for_event: the exception that leaves it, the tables
\* after it and its result
GenerateBracketsForEvent(mdb, regs, e, m, replace_existing) ==
    LET profile == BuildMetricProfile(Metrics[m])
    IN IF profile.exc # "none" THEN [exc |-> profile.exc, mdb |-> mdb, result |-> NoResult]
       ELSE GenerateWithProfile(mdb, regs, e, m, replace_existing, ClassifyConfirmed(regs, e, profile))

MmDb ==
    [brackets |-> brackets, entries |-> entries, matches |-> matches,
     nextBracket |-> nextBracketPk, nextEntry |-> nextEntryPk, nextMatch |-> nextMatchPk]

\* MatchmakingGenerateView.post (core/views.py); m = 0: no metric chosen
MatchmakingGenerateView(e, m, replace) ==
    /\ result.run < MaxRuns
    /\ \E g \in {IF m = 0 THEN [exc |-> "none", mdb |-> MmDb, result |-> NoResult]
                  ELSE GenerateBracketsForEvent(MmDb, registrations, e, m, replace)} :
          /\ brackets' = g.mdb.brackets
          /\ entries' = g.mdb.entries
          /\ matches' = g.mdb.matches
          /\ nextBracketPk' = g.mdb.nextBracket
          /\ nextEntryPk' = g.mdb.nextEntry
          /\ nextMatchPk' = g.mdb.nextMatch
          /\ result' = [g.result EXCEPT !.event = e, !.metric = m, !.replace_existing = replace,
                                        !.exc = g.exc,
                                        !.run = result.run + 1]
          /\ last' = [NoLast EXCEPT !.op = "generate", !.event = e,
                                    !.outcome = IF g.exc # "none" THEN "unhandled"
                                                ELSE IF m = 0 THEN "no_metric" ELSE "ok",
                                    !.code = IF g.exc = "none" THEN 302 ELSE 500]
    /\ UNCHANGED <<now, config, webhookToken, registrations, payments, academies, coaches,
                   nextRegPk, nextPayPk, gwNext, issued, session, inflight, metricRows>>

(***************************************************************************)
(* Specification of bracket generation: the registrations of the event     *)
(* are drawn from a list of athletes, then staff generate its brackets     *)
(***************************************************************************)
\* the event whose brackets are generated
MatchEvent == 1

Born(y, m, d) == [year |-> y, month |-> m, day |-> d]

\* the athletes: two men of one category (the lighter one listed second),
\* an athlete of sex 'other', an unpaid man, a woman, a boy below every age
\* group, a man registered for another event, a woman above every weight
\* bracket of her category, and a man as heavy as the first but born earlier
AthleteProfiles ==
    << [event |-> 1, status |-> RegConfirmed, sex |-> "male",   weight_kg |-> 660, birth_date |-> Born(2000, 1, 10), total_fights |-> 2],
       [event |-> 1, status |-> RegConfirmed, sex |-> "male",   weight_kg |-> 645, birth_date |-> Born(2001, 3, 5),  total_fights |-> 2],
       [event |-> 1, status |-> RegConfirmed, sex |-> "other",  weight_kg |-> 600, birth_date |-> Born(1999, 7, 1),  total_fights |-> 0],
       [event |-> 1, status |-> RegPending,   sex |-> "male",   weight_kg |-> 660, birth_date |-> Born(2000, 1, 10), total_fights |-> 2],
       [event |-> 1, status |-> RegConfirmed, sex |-> "female", weight_kg |-> 580, birth_date |-> Born(1998, 2, 20), total_fights |-> 6],
       [event |-> 1, status |-> RegConfirmed, sex |-> "male",   weight_kg |-> 660, birth_date |-> Born(2015, 1, 10), total_fights |-> 2],
       [event |-> 2, status |-> RegConfirmed, sex |-> "male",   weight_kg |-> 660, birth_date |-> Born(2000, 1, 10), total_fights |-> 2],
       [event |-> 1, status |-> RegConfirmed, sex |-> "female", weight_kg |-> 700, birth_date |-> Born(1998, 2, 20), total_fights |-> 6],
       [event |-> 1, status |-> RegConfirmed, sex |-> "male",   weight_kg |-> 660, birth_date |-> Born(1999, 5, 5),  total_fights |-> 2] >>

RegistrationOf(a) ==
    [event |-> a.event, cpf |-> None, status |-> a.status, sex |-> a.sex, rule_set |-> "k1_light",
     weight_kg |-> a.weight_kg, birth_date |-> a.birth_date, total_fights |-> a.total_fights]

\* the registrations on file, in the order of the list
Populations ==
    {s \in UNION {[1..n -> 1..Len(AthleteProfiles)] : n \in 1..MaxAthletes} :
        \A i \in 1..(Len(s) - 1) : s[i] <= s[i + 1]}

InitMM ==
    /\ now = 0
    /\ config = TRUE
    /\ webhookToken = "token-123"
    /\ \E s \in Populations :
          /\ registrations = [r \in 1..Len(s) |-> RegistrationOf(AthleteProfiles[s[r]])]
          /\ nextRegPk = Len(s) + 1
    /\ payments = EmptyFn
    /\ academies = {}
    /\ coaches = {}
    /\ nextPayPk = 1
    /\ gwNext = 0
    /\ issued = EmptyFn
    /\ session = NoSession
    /\ inflight = [w \in Workers |-> Idle]
    /\ last = NoLast
    /\ brackets = EmptyFn
    /\ entries = EmptyFn
    /\ matches = EmptyFn
    /\ nextBracketPk = 1
    /\ nextEntryPk = 1
    /\ nextMatchPk = 1
    /\ metricRows = MetricPks
    /\ result = NoResult

Generate ==
    \E m \in MetricIds \cup {0}, replace \in BOOLEAN :
        /\ m # 0 \/ replace
        /\ MatchmakingGenerateView(MatchEvent, m, replace)

NextMM == Generate

SpecMM == InitMM /\ [][NextMM]_vars

(***************************************************************************)
(* Manual reordering of a bracket (core/views.py)                          *)
(***************************************************************************)
\* the entries of a bracket in the order of their slots
RECURSIVE BySlot(_, _)
BySlot(ents, S) ==
    IF S = {} THEN <<>>
    ELSE LET k == CHOOSE x \in S : \A y \in S : ents[x].slot <= ents[y].slot
         IN <<k>> \o BySlot(ents, S \ {k})

\* the checks of MatchmakingBracketManualEditView.post on the submitted ids
OrderError(order_ids, ids) ==
    IF Len(order_ids) = 0 THEN "empty"
    ELSE IF Len(order_ids) # Cardinality(ids) THEN "count"
    ELSE IF {order_ids[i] : i \in 1..Len(order_ids)} # ids THEN "unknown"
    ELSE "none"

\* the slot updates without the position taken from the submitted order
ApplyOrder_KeepSlots(ents, order_ids) == ents

\* the two bulk updates: every entry whose slot differs from its position
\* in the submitted order gets that position as its slot
ApplyOrder(ents, order_ids) ==
    [x \in DOMAIN ents |->
        IF \E i \in 1..Len(order_ids) : order_ids[i] = x /\ ents[x].slot # i
        THEN [ents[x] EXCEPT !.slot = CHOOSE i \in 1..Len(order_ids) : order_ids[i] = x]
        ELSE ents[x]]

\* the validation of the submitted order switched off
Reorder_Unchecked(mdb, b, order_ids) ==
    [error |-> "none",
     mdb |-> BuildMatchesForBracket([mdb EXCEPT !.brackets[b].is_manual = TRUE,
                                                !.entries = [x \in DOMAIN @ |->
                                                    IF \E i \in 1..Len(order_ids) : order_ids[i] = x
                                                    THEN [@[x] EXCEPT !.slot = CHOOSE i \in 1..Len(order_ids) : order_ids[i] = x]
                                                    ELSE @[x]]], b).mdb]

\* MatchmakingBracketManualEditView.post on the tables: the error found, or
\* the tables after the slots are rewritten, the bracket flagged and its
\* matches rebuilt
Reorder(mdb, b, order_ids) ==
    LET error == OrderError(order_ids, EntriesOf(mdb.entries, b))
    IN IF error # "none" THEN [error |-> error, mdb |-> mdb]
       ELSE [error |-> "none",
             mdb |-> BuildMatchesForBracket([mdb EXCEPT !.brackets[b].is_manual = TRUE,
                                                        !.entries = ApplyOrder(@, order_ids)], b).mdb]

\* MatchmakingBracketManualEditView: dispatch answers 404 for a bracket
\* that does not exist, post renders the form again (200) on an error and
\* redirects (302) after the update
MatchmakingBracketManualEditView(b, order_ids) ==
    /\ nextMatchPk <= MaxMatchPk
    /\ \E r \in {IF b \in DOMAIN brackets THEN Reorder(MmDb, b, order_ids)
                 ELSE [error |-> "404", mdb |-> MmDb]} :
          /\ brackets' = r.mdb.brackets
          /\ entries' = r.mdb.entries
          /\ matches' = r.mdb.matches
          /\ nextBracketPk' = r.mdb.nextBracket
          /\ nextEntryPk' = r.mdb.nextEntry
          /\ nextMatchPk' = r.mdb.nextMatch
          /\ last' = [NoLast EXCEPT !.op = "manual_edit", !.bracket = b, !.order = order_ids,
                                    !.outcome = r.error,
                                    !.code = CASE r.error = "404" -> 404
                                               [] r.error = "none" -> 302
                                               [] OTHER -> 200]
    /\ UNCHANGED <<now, config, webhookToken, registrations, payments, academies, coaches,
                   nextRegPk, nextPayPk, gwNext, issued, session, inflight, metricRows, result>>

(***************************************************************************)
(* Specification of manual reordering: one bracket was generated for a     *)
(* group of athletes, then staff reorder it                                *)
(***************************************************************************)
\* the metric whose brackets hold up to eight athletes
WideMetric == 2

\* an entry id that belongs to no entry of the bracket
ForeignEntry == 0

Swapped(seq, i, j) == [k \in 1..Len(seq) |-> IF k = i THEN seq[j] ELSE IF k = j THEN seq[i] ELSE seq[k]]

\* the orders that are submitted: none, the current one, the current one
\* with two athletes exchanged, with an id dropped, added, replaced by a
\* foreign one or repeated
SubmittedOrders(b) ==
    LET current == IF b \in DOMAIN brackets THEN BySlot(entries, EntriesOf(entries, b)) ELSE <<>>
        n == Len(current)
    IN {<<>>, current, Append(current, ForeignEntry)}
       \cup {Swapped(current, i, j) : i, j \in 1..n}
       \cup {SubSeq(current, 1, n - 1)}
       \cup {[current EXCEPT ![i] = ForeignEntry] : i \in {1} \cap (1..n)}
       \cup {[current EXCEPT ![i] = current[i + 1]] : i \in {1} \cap (1..(n - 1))}

InitManual ==
    /\ now = 0
    /\ config = TRUE
    /\ webhookToken = "token-123"
    /\ \E n \in 1..MaxEntries :
          /\ registrations = [r \in 1..n |-> RegistrationOf(AthleteProfiles[1])]
          /\ nextRegPk = n + 1
    /\ payments = EmptyFn
    /\ academies = {}
    /\ coaches = {}
    /\ nextPayPk = 1
    /\ gwNext = 0
    /\ issued = EmptyFn
    /\ session = NoSession
    /\ inflight = [w \in Workers |-> Idle]
    /\ last = NoLast
    /\ metricRows = MetricPks
    /\ \E g \in {GenerateBracketsForEvent([brackets |-> EmptyFn, entries |-> EmptyFn, matches |-> EmptyFn,
                                           nextBracket |-> 1, nextEntry |-> 1, nextMatch |-> 1],
                                          registrations, MatchEvent, WideMetric, TRUE)} :
          /\ brackets = g.mdb.brackets
          /\ entries = g.mdb.entries
          /\ matches = g.mdb.matches
          /\ nextBracketPk = g.mdb.nextBracket
          /\ nextEntryPk = g.mdb.nextEntry
          /\ nextMatchPk = g.mdb.nextMatch
          /\ result = [g.result EXCEPT !.event = MatchEvent, !.metric = WideMetric,
                                       !.replace_existing = TRUE, !.run = 1]

ManualEdit ==
    \E b \in DOMAIN brackets \cup {nextBracketPk} :
        \E order_ids \in SubmittedOrders(b) :
            MatchmakingBracketManualEditView(b, order_ids)

NextManual == ManualEdit

SpecManual == InitManual /\ [][NextManual]_vars

(***************************************************************************)
(* The WhatsApp field of the registration form (events/forms.py)           *)
(***************************************************************************)
\* re.sub(r'\D', '', text)
OnlyDigits(text) == SelectSeq(text, IsDigit)

StartsWith(text, prefix) == Len(text) >= Len(prefix) /\ SubSeq(text, 1, Len(prefix)) = prefix

\* the WhatsApp part of AthleteRegistrationForm.clean: the errors it adds
\* and cleaned_data['whatsapp']
CleanWhatsapp(whatsapp) ==
    LET whatsapp_raw == Strip(whatsapp)
        all == OnlyDigits(whatsapp_raw)
        digits == IF StartsWith(all, <<"0", "0">>) THEN SubSeq(all, 3, Len(all)) ELSE all
        national_number == IF StartsWith(digits, <<"5", "5">>) THEN SubSeq(digits, 3, Len(digits))
                           ELSE digits
    IN IF Len(all) = 0 THEN [errors |-> {"whatsapp"}, whatsapp |-> whatsapp]
       ELSE IF Len(national_number) \notin {10, 11} THEN [errors |-> {"whatsapp"}, whatsapp |-> whatsapp]
       ELSE [errors |-> {}, whatsapp |-> <<"5", "5">> \o national_number]

\* the form is cleaned with the submitted WhatsApp value
CleanWhatsappField ==
    /\ last.op = "whatsapp_input"
    /\ \E c \in {CleanWhatsapp(last.arg)} :
          last' = [last EXCEPT !.op = "whatsapp_clean", !.errors = c.errors, !.value = c.whatsapp]
    /\ UNCHANGED <<now, config, webhookToken, registrations, payments, academies, coaches,
                   nextRegPk, nextPayPk, gwNext, issued, session, inflight, mmVars>>

(***************************************************************************)
(* Specification of the WhatsApp field: a value is submitted, then cleaned *)
(***************************************************************************)
Nines(k) == [i \in 1..k |-> "9"]

\* how the country code is written, the area codes, and the two ways of
\* writing the number
CountryPrefixes == {<<>>, <<"5", "5">>, <<"+", "5", "5", " ">>, <<"0", "0", "5", "5">>}
AreaCodes == {<<"1", "1">>, <<"5", "5">>}

WhatsappInputs ==
    {<<>>, <<"a", "b", "c">>}
    \cup {prefix \o area \o Nines(k) :
            prefix \in CountryPrefixes, area \in AreaCodes, k \in 6..MaxSubscriber}
    \cup {prefix \o <<" ">> \o area \o <<" ">> \o Nines(k) \o <<"-">> \o Nines(1) :
            prefix \in CountryPrefixes, area \in AreaCodes, k \in 5..(MaxSubscriber - 1)}

InitWhatsapp ==
    /\ now = 0
    /\ config = TRUE
    /\ webhookToken = "token-123"
    /\ registrations = EmptyFn
    /\ payments = EmptyFn
    /\ academies = {}
    /\ coaches = {}
    /\ nextRegPk = 1
    /\ nextPayPk = 1
    /\ gwNext = 0
    /\ issued = EmptyFn
    /\ session = NoSession
    /\ inflight = [w \in Workers |-> Idle]
    /\ \E input \in WhatsappInputs : last = [NoLast EXCEPT !.op = "whatsapp_input", !.arg = input]
    /\ brackets = EmptyFn
    /\ entries = EmptyFn
    /\ matches = EmptyFn
    /\ nextBracketPk = 1
    /\ nextEntryPk = 1
    /\ nextMatchPk = 1
    /\ metricRows = MetricPks
    /\ result = NoResult

NextWhatsapp == CleanWhatsappField

SpecWhatsapp == InitWhatsapp /\ [][NextWhatsapp]_vars

(***************************************************************************)
(* Specification of weight matching: a category carries a list of weight   *)
(* tokens, then an athlete's weight is matched against it                  *)
(***************************************************************************)
\* the tokens a category may carry, each with the number it stands for (in
\* tenths of a kilogram) and whether it is an open-ended one
TokenCatalogue ==
    << [text |-> <<"2", "8">>,           value |-> 280, plus |-> FALSE],
       [text |-> <<"3", "2">>,           value |-> 320, plus |-> FALSE],
       [text |-> <<"+", "3", "2">>,      value |-> 320, plus |-> TRUE],
       [text |-> <<"4", "0", "k", "g">>, value |-> 400, plus |-> FALSE],
       [text |-> <<"2", "8", ",", "5">>, value |-> 285, plus |-> FALSE],
       [text |-> <<"3", "0", "+">>,      value |-> 300, plus |-> TRUE] >>

TokenLists == UNION {[1..n -> 1..Len(TokenCatalogue)] : n \in 1..MaxTokens}

\* the weights that are matched, in tenths of a kilogram
Weights == {5, 280, 285, 300, 320, 325, 400, 450}

\* the metric whose only category carries the tokens
MetricOf(tokens) ==
    [max_fights_per_athlete |-> 1, age_metrics |-> AgeMetrics, experience_metrics |-> ExperienceMetrics,
     weight_categories |-> << [nome |-> "K1 Light", sexo |-> "masculino", faixa_idade |-> "adulto",
                               faixas_peso |-> [i \in 1..Len(tokens) |-> TokenCatalogue[tokens[i]].text]] >>]

\* _build_metric_profile, then _match_weight_group for an adult man of the
\* rule set and, for each range of his category, WeightRange.contains
MatchWeight ==
    /\ last.op = "weight_input"
    /\ \E profile \in {BuildMetricProfile(MetricOf(last.arg[1]))} :
          \E m \in {MatchWeightGroup(profile.weight_index, "k1 light", "masculino", "adulto", last.arg[2])} :
              last' = [last EXCEPT !.op = "weight_match",
                                   !.outcome = IF profile.exc # "none" THEN profile.exc ELSE m.exc,
                                   !.value = m.label,
                                   !.hits = LET ranges == profile.weight_index[<<"k1 light", "masculino", "adulto">>]
                                            IN {i \in 1..Len(ranges) : WeightRangeContains(ranges[i], last.arg[2])}]
    /\ UNCHANGED <<now, config, webhookToken, registrations, payments, academies, coaches,
                   nextRegPk, nextPayPk, gwNext, issued, session, inflight, mmVars>>

InitWeight ==
    /\ now = 0
    /\ config = TRUE
    /\ webhookToken = "token-123"
    /\ registrations = EmptyFn
    /\ payments = EmptyFn
    /\ academies = {}
    /\ coaches = {}
    /\ nextRegPk = 1
    /\ nextPayPk = 1
    /\ gwNext = 0
    /\ issued = EmptyFn
    /\ session = NoSession
    /\ inflight = [w \in Workers |-> Idle]
    /\ \E tokens \in TokenLists, w \in Weights :
          last = [NoLast EXCEPT !.op = "weight_input", !.arg = <<tokens, w>>]
    /\ brackets = EmptyFn
    /\ entries = EmptyFn
    /\ matches = EmptyFn
    /\ nextBracketPk = 1
    /\ nextEntryPk = 1
    /\ nextMatchPk = 1
    /\ metricRows = MetricPks
    /\ result = NoResult

NextWeight == MatchWeight

SpecWeight == InitWeight /\ [][NextWeight]_vars

(***************************************************************************)
(* Access to the staff dashboard (core/views.py, events/views.py)          *)
(***************************************************************************)
\* the views behind StaffOnlyMixin
StaffViews ==
    {"DashboardView", "EventListView", "RegistrationListView", "RegistrationExportView",
     "RegistrationPaymentActionView", "MatchmakingMetricListView", "MatchmakingMetricCreateView",
     "MatchmakingMetricUpdateView", "MatchmakingMetricDeleteView", "MatchmakingEventView",
     "MatchmakingGenerateView", "MatchmakingBracketDetailView", "MatchmakingBracketExportView",
     "MatchmakingBracketManualEditView"}

\* the views with a handle_no_permission of their own
EventEditViews == {"EventCreateView", "EventUpdateView"}

\* the views whose own dispatch loads the bracket before the mixin's
EarlyLookupViews == {"MatchmakingBracketManualEditView"}

\* who sends a request
Anonymous == "anonymous"
Member == "member"
Staff == "staff"

\* dispatch of a view of the staff surface up to the handler: the response
\* of the access check, or "handler" when the handler is reached; ran holds
\* what was run on the way
DispatchStaffView(view, user, found) ==
    LET early == IF view \in EarlyLookupViews THEN {"lookup"} ELSE {}
    IN IF view \in EarlyLookupViews /\ ~found
       THEN [outcome |-> "not_found", code |-> 404, ran |-> early]
       ELSE IF user = Anonymous
       THEN [outcome |-> "login", code |-> 302, ran |-> early]
       ELSE IF user # Staff
       THEN IF view \in EventEditViews
            THEN [outcome |-> "dashboard", code |-> 302, ran |-> early]
            ELSE [outcome |-> "forbidden", code |-> 403, ran |-> early]
       ELSE [outcome |-> "handler", code |-> 0, ran |-> early \cup {"handler"}]

\* a requester who is not staff addresses a view of the staff surface,
\* naming the bracket pk
RequestStaffView(view, user, pk) ==
    /\ user # Staff
    /\ \E d \in {DispatchStaffView(view, user, pk \in DOMAIN brackets)} :
          last' = [NoLast EXCEPT !.op = "staff_view", !.view = view, !.user = user, !.bracket = pk,
                                 !.outcome = d.outcome, !.code = d.code, !.ran = d.ran]
    /\ UNCHANGED <<now, config, webhookToken, registrations, payments, academies, coaches,
                   nextRegPk, nextPayPk, gwNext, issued, session, inflight, mmVars>>

(***************************************************************************)
(* Specification of the access check: brackets exist, then requesters     *)
(* who are not staff address the staff surface                             *)
(***************************************************************************)
Outsider ==
    \E view \in StaffViews \cup EventEditViews, user \in {Anonymous, Member} :
        \E pk \in DOMAIN brackets \cup {nextBracketPk} :
            RequestStaffView(view, user, pk)

NextAccess == Outsider

SpecAccess == InitManual /\ [][NextAccess]_vars

(***************************************************************************)
(* Specification of the split of one group into brackets                   *)
(* (generate_brackets_for_event 133-134, _split_into_chunks)               *)
(***************************************************************************)
\* a sorted group is given by the positions of its athletes; the input is
\* the size of the group and the metric's max_fights_per_athlete
InitChunks ==
    /\ now = 0
    /\ config = TRUE
    /\ webhookToken = "token-123"
    /\ registrations = EmptyFn
    /\ payments = EmptyFn
    /\ academies = {}
    /\ coaches = {}
    /\ nextRegPk = 1
    /\ nextPayPk = 1
    /\ gwNext = 0
    /\ issued = EmptyFn
    /\ session = NoSession
    /\ inflight = [w \in Workers |-> Idle]
    /\ \E n \in 0..MaxGroup, fights \in 0..MaxFights :
          last = [NoLast EXCEPT !.op = "chunks_input", !.arg = <<n, fights>>]
    /\ brackets = EmptyFn
    /\ entries = EmptyFn
    /\ matches = EmptyFn
    /\ nextBracketPk = 1
    /\ nextEntryPk = 1
    /\ nextMatchPk = 1
    /\ metricRows = MetricPks
    /\ result = NoResult

\* the group is split
SplitGroup ==
    /\ last.op = "chunks_input"
    /\ last' = [last EXCEPT !.op = "chunks",
                            !.value = ChunksOfGroup([i \in 1..last.arg[1] |-> i], last.arg[2])]
    /\ UNCHANGED <<now, config, webhookToken, registrations, payments, academies, coaches,
                   nextRegPk, nextPayPk, gwNext, issued, session, inflight, mmVars>>

NextChunks == SplitGroup

SpecChunks == InitChunks /\ [][NextChunks]_vars

(***************************************************************************)
(* Specification of manual reordering statement by statement: the view     *)
(* opens no transaction, so every statement of post() is committed when it *)
(* returns; other requests run, and the request may fail, between them     *)
(***************************************************************************)
\* the reordering request is kept in inflight[1]: pc is the statement it
\* has reached, event the pk of its bracket, rows the submitted order
Reseeding == inflight[1]

\* the request moves on to statement pc
ReseedAt(pc, b, order_ids) ==
    inflight' = [inflight EXCEPT ![1] = [pc |-> pc, op |-> "manual_edit", event |-> b, rows |-> order_ids]]

\* the entries that get a new slot (updated_entries)
UpdatedEntries(ents, order_ids) ==
    {x \in DOMAIN ents : \E i \in 1..Len(order_ids) : order_ids[i] = x /\ ents[x].slot # i}

\* the first bulk_update: the entries to move are parked at index + len(entries)
TemporarySlots(ents, order_ids) ==
    [x \in DOMAIN ents |->
        IF x \in UpdatedEntries(ents, order_ids)
        THEN [ents[x] EXCEPT !.slot = (CHOOSE i \in 1..Len(order_ids) : order_ids[i] = x) + Len(order_ids)]
        ELSE ents[x]]

\* the second bulk_update: the parked entries get their index
FinalSlots(ents, order_ids) ==
    [x \in DOMAIN ents |->
        IF \E i \in 1..Len(order_ids) : order_ids[i] = x /\ ents[x].slot = i + Len(order_ids)
        THEN [ents[x] EXCEPT !.slot = @ - Len(order_ids)]
        ELSE ents[x]]

\* post() up to the first bulk_update: a valid order is submitted
ReseedPark(b, order_ids) ==
    /\ Reseeding.pc = "idle"
    /\ nextMatchPk <= MaxMatchPk
    /\ b \in DOMAIN brackets
    /\ OrderError(order_ids, EntriesOf(entries, b)) = "none"
    /\ IF UpdatedEntries(entries, order_ids) # {}
       THEN /\ entries' = TemporarySlots(entries, order_ids)
            /\ ReseedAt("parked", b, order_ids)
       ELSE /\ entries' = entries
            /\ ReseedAt("placed", b, order_ids)
    /\ last' = [NoLast EXCEPT !.op = "manual_edit_step", !.bracket = b, !.order = order_ids]
    /\ UNCHANGED <<now, config, webhookToken, registrations, payments, academies, coaches,
                   nextRegPk, nextPayPk, gwNext, issued, session, brackets, matches,
                   nextBracketPk, nextEntryPk, nextMatchPk, metricRows, result>>

\* the second bulk_update
ReseedPlace ==
    /\ Reseeding.pc = "parked"
    /\ entries' = FinalSlots(entries, Reseeding.rows)
    /\ ReseedAt("placed", Reseeding.event, Reseeding.rows)
    /\ last' = [NoLast EXCEPT !.op = "manual_edit_step", !.bracket = Reseeding.event, !.order = Reseeding.rows]
    /\ UNCHANGED <<now, config, webhookToken, registrations, payments, academies, coaches,
                   nextRegPk, nextPayPk, gwNext, issued, session, brackets, matches,
                   nextBracketPk, nextEntryPk, nextMatchPk, metricRows, result>>

\* bracket.is_manual = True; bracket.save(...)
ReseedFlag ==
    /\ Reseeding.pc = "placed"
    /\ brackets' = [brackets EXCEPT ![Reseeding.event].is_manual = TRUE]
    /\ ReseedAt("flagged", Reseeding.event, Reseeding.rows)
    /\ last' = [NoLast EXCEPT !.op = "manual_edit_step", !.bracket = Reseeding.event, !.order = Reseeding.rows]
    /\ UNCHANGED <<now, config, webhookToken, registrations, payments, academies, coaches,
                   nextRegPk, nextPayPk, gwNext, issued, session, entries, matches,
                   nextBracketPk, nextEntryPk, nextMatchPk, metricRows, result>>

\* rebuild_bracket_matches: bracket.matches.all().delete()
ReseedDelete ==
    /\ Reseeding.pc = "flagged"
    /\ matches' = Drop(matches, MatchesOf(matches, Reseeding.event))
    /\ ReseedAt("deleted", Reseeding.event, Reseeding.rows)
    /\ last' = [NoLast EXCEPT !.op = "manual_edit_step", !.bracket = Reseeding.event, !.order = Reseeding.rows]
    /\ UNCHANGED <<now, config, webhookToken, registrations, payments, academies, coaches,
                   nextRegPk, nextPayPk, gwNext, issued, session, brackets, entries,
                   nextBracketPk, nextEntryPk, nextMatchPk, metricRows, result>>

\* rebuild_bracket_matches: the matches are created, then the redirect
ReseedBuild ==
    /\ Reseeding.pc = "deleted"
    /\ \E built \in {BuildMatchesForBracket(MmDb, Reseeding.event).mdb} :
          /\ brackets' = built.brackets
          /\ entries' = built.entries
          /\ matches' = built.matches
          /\ nextBracketPk' = built.nextBracket
          /\ nextEntryPk' = built.nextEntry
          /\ nextMatchPk' = built.nextMatch
    /\ inflight' = [inflight EXCEPT ![1] = Idle]
    /\ last' = [NoLast EXCEPT !.op = "manual_edit", !.bracket = Reseeding.event, !.order = Reseeding.rows,
                              !.outcome = "none", !.code = 302]
    /\ UNCHANGED <<now, config, webhookToken, registrations, payments, academies, coaches,
                   nextRegPk, nextPayPk, gwNext, issued, session, metricRows, result>>

\* the request ends between two statements (the worker is killed, the
\* database connection is lost): what was committed stays
ReseedFails ==
    /\ Reseeding.pc \notin {"idle", "validated"}
    /\ inflight' = [inflight EXCEPT ![1] = Idle]
    /\ last' = [NoLast EXCEPT !.op = "manual_edit", !.bracket = Reseeding.event, !.order = Reseeding.rows,
                              !.outcome = "failed", !.code = 500]
    /\ UNCHANGED <<now, config, webhookToken, registrations, payments, academies, coaches,
                   nextRegPk, nextPayPk, gwNext, issued, session, mmVars>>

\* MatchmakingBracketDetailView.get_context_data of another request: the
\* slots of the entries in slot order and the matches of the bracket
MatchmakingBracketDetailView(b) ==
    /\ b \in DOMAIN brackets
    /\ last' = [NoLast EXCEPT !.op = "bracket_detail", !.bracket = b, !.code = 200,
                              !.value = LET seen == BySlot(entries, EntriesOf(entries, b))
                                        IN [i \in 1..Len(seen) |-> entries[seen[i]].slot],
                              !.hits = MatchesOf(matches, b)]
    /\ UNCHANGED <<now, config, webhookToken, registrations, payments, academies, coaches,
                   nextRegPk, nextPayPk, gwNext, issued, session, inflight, mmVars>>

ReseedSubmit ==
    \E b \in DOMAIN brackets : \E order_ids \in SubmittedOrders(b) : ReseedPark(b, order_ids)

BracketDetail == \E b \in DOMAIN brackets : MatchmakingBracketDetailView(b)

NextReseed ==
    \/ ReseedSubmit
    \/ ReseedPlace
    \/ ReseedFlag
    \/ ReseedDelete
    \/ ReseedBuild
    \/ ReseedFails
    \/ BracketDetail

\* the bracket that is followed statement by statement is a small one
InitReseed == InitManual /\ Cardinality(DOMAIN entries) <= MaxReseed

SpecReseed == InitReseed /\ [][NextReseed]_vars

(***************************************************************************)
(* Deletion of a metric (core/views.py, matchmaking/models.py)             *)
(***************************************************************************)
\* the brackets whose metric is m
BracketsOfMetric(bs, m) == {b \in DOMAIN bs : bs[b].metric = m}

\* metric.delete(): MatchmakingBracket.metric is on_delete=PROTECT, so the
\* collector raises ProtectedError while a bracket refers to the metric
DeleteMetric(mdb, rows, m) ==
    IF BracketsOfMetric(mdb.brackets, m) # {}
    THEN [exc |-> "ProtectedError", rows |-> rows, mdb |-> mdb]
    ELSE [exc |-> "none", rows |-> rows \ {m}, mdb |-> mdb]

\* MatchmakingMetricDeleteView.post: 404 for a metric that is not on file,
\* the redirect after the deletion, no handler for ProtectedError
MatchmakingMetricDeleteView(m) ==
    /\ \E d \in {IF m \in metricRows THEN DeleteMetric(MmDb, metricRows, m)
                 ELSE [exc |-> "Http404", rows |-> metricRows, mdb |-> MmDb]} :
          /\ metricRows' = d.rows
          /\ brackets' = d.mdb.brackets
          /\ entries' = d.mdb.entries
          /\ matches' = d.mdb.matches
          /\ last' = [NoLast EXCEPT !.op = "metric_delete", !.arg = <<m>>,
                                    !.outcome = IF d.exc = "none" THEN "deleted" ELSE d.exc,
                                    !.hits = BracketsOfMetric(brackets, m),
                                    !.code = CASE d.exc = "none" -> 302
                                               [] d.exc = "Http404" -> 404
                                               [] OTHER -> 500]
    /\ UNCHANGED <<now, config, webhookToken, registrations, payments, academies, coaches,
                   nextRegPk, nextPayPk, gwNext, issued, session, inflight,
                   nextBracketPk, nextEntryPk, nextMatchPk, result>>

(***************************************************************************)
(* Specification of the deletion of metrics: brackets were generated with  *)
(* one of the metrics, then staff delete metrics                           *)
(***************************************************************************)
InitMetricDelete ==
    /\ now = 0
    /\ config = TRUE
    /\ webhookToken = "token-123"
    /\ \E n \in 1..MaxEntries :
          /\ registrations = [r \in 1..n |-> RegistrationOf(AthleteProfiles[1])]
          /\ nextRegPk = n + 1
    /\ payments = EmptyFn
    /\ academies = {}
    /\ coaches = {}
    /\ nextPayPk = 1
    /\ gwNext = 0
    /\ issued = EmptyFn
    /\ session = NoSession
    /\ inflight = [w \in Workers |-> Idle]
    /\ last = NoLast
    /\ metricRows = MetricPks
    /\ \E m \in MetricIds :
       \E g \in {GenerateBracketsForEvent([brackets |-> EmptyFn, entries |-> EmptyFn, matches |-> EmptyFn,
                                           nextBracket |-> 1, nextEntry |-> 1, nextMatch |-> 1],
                                          registrations, MatchEvent, m, TRUE)} :
          /\ brackets = g.mdb.brackets
          /\ entries = g.mdb.entries
          /\ matches = g.mdb.matches
          /\ nextBracketPk = g.mdb.nextBracket
          /\ nextEntryPk = g.mdb.nextEntry
          /\ nextMatchPk = g.mdb.nextMatch
          /\ result = [g.result EXCEPT !.event = MatchEvent, !.metric = m,
                                       !.replace_existing = TRUE, !.exc = g.exc, !.run = 1]

MetricDelete == \E m \in MetricIds : MatchmakingMetricDeleteView(m)

NextMetricDelete == MetricDelete

SpecMetricDelete == InitMetricDelete /\ [][NextMetricDelete]_vars

(***************************************************************************)
(* Round labels (matchmaking/models.py)                                    *)
(***************************************************************************)
\* the loop of _total_rounds: size = (size + 1) // 2 until size <= 1
RECURSIVE Halvings(_)
Halvings(size) == IF size > 1 THEN 1 + Halvings((size + 1) \div 2) ELSE 0

\* MatchmakingMatch._total_rounds for a match of bracket b
TotalRounds(b) ==
    LET count == Cardinality(EntriesOf(entries, b))
        larger == IF brackets[b].size > count THEN brackets[b].size ELSE count
        rounds == Halvings(IF larger > 1 THEN larger ELSE 1)
    IN IF rounds > 1 THEN rounds ELSE 1

Stages ==
    <<"Final", "Semifinal", "Quartas de final", "Oitavas de final", "16-avos de final", "32-avos de final">>

\* round_label that counts the stages from the round after the match's
RoundLabel_OffByOne(x) ==
    LET index == TotalRounds(matches[x].bracket) - matches[x].round_number + 1
    IN IF 0 <= index /\ index < Len(Stages) THEN Stages[index + 1]
       ELSE IF matches[x].round_number = 1 THEN "Fase inicial"
       ELSE "Round N"

\* MatchmakingMatch.round_label of match x
RoundLabel(x) ==
    LET index == TotalRounds(matches[x].bracket) - matches[x].round_number
    IN IF 0 <= index /\ index < Len(Stages) THEN Stages[index + 1]
       ELSE IF matches[x].round_number = 1 THEN "Fase inicial"
       ELSE "Round N"

(***************************************************************************)
(* Specification of the match trees: the athletes of one group are on     *)
(* file, staff generate the brackets and reorder them                      *)
(***************************************************************************)
InitTree ==
    /\ now = 0
    /\ config = TRUE
    /\ webhookToken = "token-123"
    /\ \E n \in 1..MaxEntries :
          /\ registrations = [r \in 1..n |-> RegistrationOf(AthleteProfiles[1])]
          /\ nextRegPk = n + 1
    /\ payments = EmptyFn
    /\ academies = {}
    /\ coaches = {}
    /\ nextPayPk = 1
    /\ gwNext = 0
    /\ issued = EmptyFn
    /\ session = NoSession
    /\ inflight = [w \in Workers |-> Idle]
    /\ last = NoLast
    /\ brackets = EmptyFn
    /\ entries = EmptyFn
    /\ matches = EmptyFn
    /\ nextBracketPk = 1
    /\ nextEntryPk = 1
    /\ nextMatchPk = 1
    /\ metricRows = MetricPks
    /\ result = NoResult

\* staff reorder a bracket that exists
ReorderAny ==
    /\ nextMatchPk <= MaxTreePk
    /\ \E b \in DOMAIN brackets : \E order_ids \in SubmittedOrders(b) :
          MatchmakingBracketManualEditView(b, order_ids)

\* the brackets are generated once
GenerateFirst == result.run = 0 /\ Generate

NextTree ==
    \/ GenerateFirst
    \/ ReorderAny

SpecTree == InitTree /\ [][NextTree]_vars

(***************************************************************************)
(* Properties                                                              *)
(***************************************************************************)
IsRegistrationOp == last.op \in {"single", "bulk"}
Tables == <<registrations, payments>>

\* the registrations of an event are closed at time t
ClosedAt(e, t) == ~Events[e].is_published \/ Events[e].registration_deadline < t

\* C1: an authorized webhook that delivers RECEIVED or CONFIRMED for the
\* gateway id of a Payment is answered 200 and leaves that Payment with the
\* delivered status, paid, with paid_at set, and its registration confirmed
C1_WebhookConfirmsPayment ==
    (last.op = "webhook" /\ last.auth /\ last.shape = "found" /\ last.status \in {RECEIVED, CONFIRMED})
    => /\ last.code = 200
       /\ \E p \in DOMAIN payments : payments[p].asaas_payment_id = last.id
       /\ \A p \in DOMAIN payments :
            payments[p].asaas_payment_id = last.id
            => /\ payments[p].status = last.status
               /\ IsPaid(payments[p])
               /\ payments[p].paid_at # NoTime
               /\ registrations[payments[p].registration].status = RegConfirmed

C1_Witness ==
    /\ last.op = "webhook" /\ last.auth /\ last.shape = "found"
    /\ last.status = CONFIRMED /\ last.code = 200
    /\ webhookToken # ""

\* C2: with a configured secret, a webhook request that carries the secret
\* in none of the accepted forms is answered 403 and changes no Payment and
\* no registration
C2_WebhookRejectsBadToken ==
    [][(last'.op = "webhook" /\ webhookToken # "" /\ ~last'.auth)
       => (last'.code = 403 /\ Tables' = Tables)]_vars

C2_Witness ==
    /\ last.op = "webhook" /\ webhookToken # "" /\ ~last.auth /\ last.code = 403
    /\ \E p \in DOMAIN payments : payments[p].status = PENDING

\* C3: an authorized webhook request is never answered by an unhandled
\* failure: invalid JSON is answered 400, a body without a payment id, be it
\* an object or any other JSON value, is answered 400, an unknown payment id
\* is answered 404, and none of them changes a Payment or a registration
C3_WebhookWellFormed ==
    [][(last'.op = "webhook" /\ last'.auth)
       => /\ last'.code # 500
          /\ last'.shape = "badjson" => (last'.code = 400 /\ Tables' = Tables)
          /\ last'.shape \in {"nonobject", "noid"} => (last'.code = 400 /\ Tables' = Tables)
          /\ last'.shape = "unknown" => (last'.code = 404 /\ Tables' = Tables)]_vars

\* C4: every registration has at most one Payment, and a payment request for
\* a registration that has one updates that row with the new gateway data
\* and adds no row
AtMostOnePayment ==
    \A r \in DOMAIN registrations : Cardinality(PaymentsOf(payments, r)) <= 1

ResendUpdatesSameRow ==
    \A r \in DOMAIN registrations :
        (/\ last'.op \in {"staff_resend", "self_resend"}
         /\ last'.reg = r /\ last'.gwCalls = 1 /\ last'.outcome = "ok"
         /\ PaymentsOf(payments, r) # {})
        => /\ DOMAIN payments' = DOMAIN payments
           /\ \A p \in PaymentsOf(payments, r) :
                /\ payments'[p].registration = r
                /\ payments'[p].asaas_payment_id = GwId(gwNext')
                /\ payments[p].asaas_payment_id # GwId(gwNext')

C4_OnePaymentPerRegistration == []AtMostOnePayment /\ [][ResendUpdatesSameRow]_vars

C4_Witness ==
    /\ last.op \in {"staff_resend", "self_resend"} /\ last.outcome = "ok" /\ last.gwCalls = 1
    /\ gwNext = 2
    /\ Cardinality(DOMAIN payments) = 1

\* C5: a successful single or bulk registration for a free event saves every
\* registration as confirmed, calls the gateway for none and creates no
\* Payment, with or without a fee on the event
C5_FreeEventBypass ==
    (IsRegistrationOp /\ last.outcome = "created" /\ Events[last.event].is_free)
    => /\ last.gwCalls = 0
       /\ payments = EmptyFn \/ \A p \in DOMAIN payments : \A i \in 1..Len(last.newPks) :
                                    payments[p].registration # last.newPks[i]
       /\ \A i \in 1..Len(last.newPks) :
            /\ last.newPks[i] \in DOMAIN registrations
            /\ registrations[last.newPks[i]].status = RegConfirmed

C5_Witness ==
    /\ last.op = "bulk" /\ last.outcome = "created" /\ Len(last.newPks) = 2
    /\ Events[last.event].is_free /\ Events[last.event].registration_fee > 0

\* C6: a single or bulk submission for a paid event whose payment creation
\* fails leaves no registration and no Payment of the submission, the rows
\* saved before the failing one included, and stores nothing in the session
C6_GatewayFailureRollsBack ==
    [][(last'.op \in {"single", "bulk"} /\ last'.outcome \in {"config_error", "gateway_error"})
       => (Tables' = Tables /\ session' = session)]_vars

C6_Witness ==
    /\ last.op = "bulk" /\ last.outcome = "gateway_error"
    /\ Len(last.newPks) = 2 /\ last.gwCalls = 2
    /\ ~Events[last.event].is_free

\* C7: no two registrations of one event carry the same document number
C7_UniqueDocumentPerEvent ==
    \A p, q \in DOMAIN registrations :
        (p # q /\ registrations[p].event = registrations[q].event /\ registrations[p].cpf # None)
        => registrations[p].cpf # registrations[q].cpf

C7_Witness ==
    /\ last.op = "single" /\ last.outcome = "unhandled"
    /\ \E p \in DOMAIN registrations : registrations[p].event = last.event
    /\ \A w \in Workers : ~Pending(w)

\* C8: a complete submission that carries a document number the event
\* already has, or twice the same one, is rejected with an error on the
\* document field and saves no registration
C8_DuplicateRejected ==
    [][(last'.op \in {"single", "bulk"} /\ last'.dup /\ ~ClosedAt(last'.event, now))
       => /\ last'.outcome = "invalid"
          /\ "cpf" \in last'.errors
          /\ registrations' = registrations]_vars

\* C9: the single and bulk flows create no registration for an event whose
\* registrations are closed, and the form rejects such a submission as a
\* whole with a non-field error
ClosedEventCreatesNothing ==
    (last'.op \in {"single", "bulk"} /\ ClosedAt(last'.event, now))
    => (registrations' = registrations /\ last'.outcome \in {"notfound", "closed"})

ClosedFormRejected ==
    \A e \in EventIds, cpf \in Cpfs, acad \in AcademyNames, coach \in CoachNames :
        ClosedAt(e, now)
        => FormClean(EmptyForm, e, cpf, acad, coach, registrations, now).errors = {"__all__"}

C9_ClosedEventRejected == []ClosedFormRejected /\ [][ClosedEventCreatesNothing]_vars

C9_Witness ==
    /\ IsRegistrationOp /\ last.outcome = "closed"
    /\ Events[last.event].registration_deadline < now
    /\ registrations # EmptyFn

\* the entries of a registration among the brackets of the last request's
\* (event, metric), and its places in the result's unmatched list
EntriesOfRegistration(r) ==
    {x \in DOMAIN entries :
        /\ entries[x].registration = r
        /\ brackets[entries[x].bracket].event = result.event
        /\ brackets[entries[x].bracket].metric = result.metric}

ListingsOfRegistration(r) ==
    {i \in 1..Len(result.unmatched) : result.unmatched[i].registration_id = r}

\* C10: after generate_brackets_for_event has returned for an (event, metric)
\* with replace_existing true, every confirmed registration of the event has
\* either exactly one entry among the brackets of that (event, metric) or
\* exactly one listing in the result's unmatched list, never both and never
\* neither; a registration that is not confirmed has no entry; a confirmed
\* registration whose sex is neither male nor female is in the unmatched list.
C10_EntryOrUnmatched ==
    (result.returned /\ result.replace_existing) =>
        \A r \in DOMAIN registrations :
            LET n == Cardinality(EntriesOfRegistration(r))
                u == Cardinality(ListingsOfRegistration(r))
            IN IF registrations[r].event = result.event /\ registrations[r].status = RegConfirmed
               THEN /\ (n = 1 /\ u = 0) \/ (n = 0 /\ u = 1)
                    /\ registrations[r].sex \notin {"male", "female"} => u = 1
               ELSE \A x \in DOMAIN entries : entries[x].registration # r

\* a second generation with replace_existing true has replaced the brackets of
\* the first, placed two athletes and listed a third, of sex 'other', as
\* unmatched, with an unconfirmed registration on file
C10_Witness ==
    /\ result.returned /\ result.replace_existing
    /\ result.replaced > 0
    /\ result.brackets_created > 0
    /\ \E r \in DOMAIN registrations :
          /\ registrations[r].sex = "other"
          /\ ListingsOfRegistration(r) # {}
    /\ \E r \in DOMAIN registrations : EntriesOfRegistration(r) # {}
    /\ \E r \in DOMAIN registrations :
          registrations[r].event # result.event \/ registrations[r].status # RegConfirmed

\* C11: a generation run is never left by a classification error: whatever
\* the metric's weight categories hold, a generation request for a chosen
\* metric does not end in ClassificationError.
C11_NeverAbortedByClassification ==
    (last.op = "generate" /\ result.metric # 0) => result.exc # "ClassificationError"

\* the seeding order of the claim: lighter first, on equal weight the one
\* born earlier, on both equal the lower registration id
PrecedesInSeeding(p, q) ==
    LET a == registrations[p]
        b == registrations[q]
    IN \/ a.weight_kg < b.weight_kg
       \/ /\ a.weight_kg = b.weight_kg
          /\ \/ a.birth_date.year < b.birth_date.year
             \/ a.birth_date.year = b.birth_date.year /\ a.birth_date.month < b.birth_date.month
             \/ /\ a.birth_date.year = b.birth_date.year
                /\ a.birth_date.month = b.birth_date.month
                /\ a.birth_date.day < b.birth_date.day
       \/ a.weight_kg = b.weight_kg /\ a.birth_date = b.birth_date /\ p < q

EntriesIn(b) == {x \in DOMAIN entries : entries[x].bracket = b}

SameGroup(b, c) ==
    /\ brackets[b].event = brackets[c].event
    /\ brackets[b].metric = brackets[c].metric
    /\ brackets[b].rule_set = brackets[c].rule_set
    /\ brackets[b].experience_label = brackets[c].experience_label
    /\ brackets[b].sex = brackets[c].sex
    /\ brackets[b].age_group = brackets[c].age_group
    /\ brackets[b].weight_label = brackets[c].weight_label

\* C12: in every bracket produced by generation with n entries the seeds are
\* exactly 1..n, each entry's slot equals its seed, the seeds ascend by
\* (weight, birth date, registration id), and across the brackets of one
\* classification group every entry of bracket index i precedes every entry
\* of bracket index i + 1 in that order.
C12_SeedingOrder ==
    \A b \in DOMAIN brackets :
        ~brackets[b].is_manual =>
            /\ {entries[x].seed : x \in EntriesIn(b)} = 1..Cardinality(EntriesIn(b))
            /\ \A x \in EntriesIn(b) : entries[x].slot = entries[x].seed
            /\ \A x, y \in EntriesIn(b) :
                  entries[x].seed < entries[y].seed =>
                      PrecedesInSeeding(entries[x].registration, entries[y].registration)
            /\ \A c \in DOMAIN brackets :
                  (~brackets[c].is_manual /\ SameGroup(b, c)
                     /\ brackets[c].bracket_index = brackets[b].bracket_index + 1) =>
                      \A x \in EntriesIn(b), y \in EntriesIn(c) :
                          PrecedesInSeeding(entries[x].registration, entries[y].registration)

\* a group of three was split into two brackets; in the first the first seed
\* is the lighter athlete although registered later, and the second bracket
\* holds an athlete as heavy as the second seed but with the higher id
C12_Witness ==
    \E b, c \in DOMAIN brackets :
        /\ SameGroup(b, c)
        /\ brackets[b].bracket_index = 1 /\ brackets[c].bracket_index = 2
        /\ \E x, y \in EntriesIn(b), z \in EntriesIn(c) :
              /\ entries[x].seed = 1 /\ entries[y].seed = 2
              /\ entries[x].registration > entries[y].registration
              /\ registrations[entries[y].registration].weight_kg
                    = registrations[entries[z].registration].weight_kg

Occupied(x) == x # 0

\* C13: in every match tree no round-1 match has both corners empty, a
\* round-1 match is a bye exactly when exactly one of its corners is
\* occupied, every bye has its sole occupant as winner, which the round-2
\* match it feeds has taken over, and a bracket of 3 entries (size 4) has
\* exactly one bye match in round 1.
C13_ByeMatches ==
    /\ \A x \in DOMAIN matches :
          LET mt == matches[x]
          IN /\ mt.round_number = 1 =>
                   /\ Occupied(mt.blue_entry) \/ Occupied(mt.red_entry)
                   /\ mt.is_bye <=> (Occupied(mt.blue_entry) # Occupied(mt.red_entry))
             /\ mt.is_bye =>
                   /\ Occupied(mt.winner_entry)
                   /\ mt.winner_entry = (IF Occupied(mt.blue_entry) THEN mt.blue_entry ELSE mt.red_entry)
             /\ mt.round_number = 2 =>
                   /\ matches[mt.blue_source_match].is_bye =>
                         mt.blue_entry = matches[mt.blue_source_match].winner_entry
                   /\ (mt.red_source_match # 0 /\ matches[mt.red_source_match].is_bye) =>
                         mt.red_entry = matches[mt.red_source_match].winner_entry
    /\ \A b \in DOMAIN brackets :
          (Cardinality(EntriesIn(b)) = 3 /\ brackets[b].size = 4) =>
              Cardinality({x \in DOMAIN matches : /\ matches[x].bracket = b
                                                  /\ matches[x].round_number = 1
                                                  /\ matches[x].is_bye}) = 1

\* the tree of a bracket of 3 entries was rebuilt after a reordering: its
\* bye is won by the athlete moved to slot 3, who waits in the final
C13_Witness ==
    \E b \in DOMAIN brackets :
        /\ Cardinality(EntriesIn(b)) = 3 /\ brackets[b].size = 4
        /\ brackets[b].is_manual
        /\ \E x, y \in DOMAIN matches :
              /\ matches[x].bracket = b /\ matches[x].is_bye
              /\ entries[matches[x].winner_entry].slot = 3
              /\ entries[matches[x].winner_entry].seed # 3
              /\ matches[y].round_number = 2 /\ matches[y].red_source_match = x
              /\ matches[y].red_entry = matches[x].winner_entry

\* the submitted order is exactly the entries of the bracket, each once
IsReordering(order, b) ==
    /\ Len(order) > 0
    /\ Len(order) = Cardinality(EntriesIn(b))
    /\ {order[i] : i \in 1..Len(order)} = EntriesIn(b)

InvalidOrderChangesNothing ==
    (/\ last'.op = "manual_edit"
     /\ last'.bracket \in DOMAIN brackets
     /\ ~IsReordering(last'.order, last'.bracket))
        => UNCHANGED <<brackets, entries, matches>>

\* C14: a manual reorder submission whose id list is empty, whose count
\* differs from the bracket's entry count, or which is not exactly the set of
\* the bracket's entry ids is rejected entirely: every slot and seed, the
\* is_manual flag and the matches stay unchanged.
C14_InvalidOrderRejected == [][InvalidOrderChangesNothing]_vars

\* an order of the right length that names a foreign id was submitted for
\* a bracket of 3 that had been reordered before
C14_Witness ==
    /\ last.op = "manual_edit"
    /\ last.bracket \in DOMAIN brackets
    /\ Len(last.order) = 3
    /\ Cardinality(EntriesIn(last.bracket)) = 3
    /\ \E i \in 1..3 : last.order[i] \notin EntriesIn(last.bracket)
    /\ brackets[last.bracket].is_manual
    /\ \E x \in EntriesIn(last.bracket) : entries[x].slot # entries[x].seed

ValidOrderApplied ==
    (/\ last'.op = "manual_edit"
     /\ last'.bracket \in DOMAIN brackets
     /\ IsReordering(last'.order, last'.bracket))
        => LET b == last'.bracket
               order == last'.order
               es == EntriesIn(b)
               round1 == {x \in DOMAIN matches' : matches'[x].bracket = b /\ matches'[x].round_number = 1}
           IN /\ \A i \in 1..Len(order) : entries'[order[i]].slot = i
              /\ {entries'[x].slot : x \in es} = 1..Cardinality(es)
              /\ DOMAIN entries' = DOMAIN entries
              /\ \A x \in DOMAIN entries :
                    /\ entries'[x].seed = entries[x].seed
                    /\ entries'[x].registration = entries[x].registration
                    /\ entries'[x].bracket = entries[x].bracket
              /\ brackets'[b].is_manual
              /\ \A x \in DOMAIN matches' : matches'[x].bracket = b => x \notin DOMAIN matches
              /\ \A x \in round1 :
                    LET blue == matches'[x].blue_entry
                        red == matches'[x].red_entry
                    IN /\ Occupied(blue) => entries'[blue].slot = 2 * matches'[x].position - 1
                       /\ Occupied(red) => entries'[red].slot = 2 * matches'[x].position
              /\ Cardinality(es) > 1 =>
                    \A e \in es : \E x \in round1 : e \in {matches'[x].blue_entry, matches'[x].red_entry}

\* C15: a valid manual reorder of a bracket with n entries gives the entry at
\* position i of the submitted order slot i, so that the slots are exactly
\* 1..n; it leaves every seed and the set of entries unchanged, sets
\* is_manual, and replaces the match tree by the one built from the new
\* slots.
C15_ReorderAssignsSlots == [][ValidOrderApplied]_vars

\* a bracket of at least 3 was reordered: an entry sits in a slot other than
\* its seed, in the position the submitted order gives it
C15_Witness ==
    /\ last.op = "manual_edit"
    /\ last.bracket \in DOMAIN brackets
    /\ IsReordering(last.order, last.bracket)
    /\ Len(last.order) >= 3
    /\ \E i \in 1..Len(last.order) :
          /\ entries[last.order[i]].slot = i
          /\ entries[last.order[i]].seed # i

\* the athlete who reaches a match without a fight: the winner of a round-1
\* bye, carried through later matches that have no second feeder
RECURSIVE Walkover(_)
Walkover(x) ==
    IF matches[x].round_number = 1 THEN (IF matches[x].is_bye THEN matches[x].winner_entry ELSE 0)
    ELSE IF matches[x].red_source_match = 0 THEN Walkover(matches[x].blue_source_match)
    ELSE 0

\* C20: an athlete whose path has no opponent is advanced through each such
\* round and occupies a corner of the first match in which an opponent can
\* arrive: a match with two feeders holds, in the corner of a feeder that is
\* reached without a fight, the athlete who reaches it.
C20_ByePathAdvances ==
    \A x \in DOMAIN matches :
        (matches[x].round_number > 1 /\ matches[x].red_source_match # 0) =>
            /\ Occupied(Walkover(matches[x].blue_source_match)) =>
                  matches[x].blue_entry = Walkover(matches[x].blue_source_match)
            /\ Occupied(Walkover(matches[x].red_source_match)) =>
                  matches[x].red_entry = Walkover(matches[x].red_source_match)

ManualConfirmationEffect ==
    last'.op = "manual_confirm" =>
        LET r == last'.reg
            before == PaymentsOf(payments, r)
            after == PaymentsOf(payments', r)
        IN /\ registrations'[r].status = RegConfirmed
           /\ Cardinality(after) = 1
           /\ \A p \in after :
                 /\ payments'[p].status = CONFIRMED
                 /\ payments'[p].paid_at # NoTime
                 /\ payments'[p].payload.manual
                 /\ before # {} =>
                       /\ p \in before
                       /\ payments'[p].asaas_payment_id = payments[p].asaas_payment_id
                       /\ payments'[p].invoice_url = payments[p].invoice_url
                 /\ before = {} =>
                       /\ p \notin DOMAIN payments
                       /\ payments'[p].asaas_payment_id.kind = "manual"

\* C16: after mark_registration_paid_manually the registration is confirmed
\* and has exactly one Payment, with status CONFIRMED, paid_at set and
\* manual_confirmation in its payload; a Payment that existed before is
\* reused with its primary key, gateway id and URLs, otherwise a new Payment
\* with a 'manual-' gateway id is created.
C16_ManualConfirmation == [][ManualConfirmationEffect]_vars

\* a pending registration whose gateway payment was not paid has been
\* confirmed by hand: its Payment keeps the gateway's id
C16_Witness ==
    /\ last.op = "manual_confirm"
    /\ \E p \in PaymentsOf(payments, last.reg) :
          /\ payments[p].asaas_payment_id.kind = "pay"
          /\ payments[p].payload.manual
          /\ payments[p].payload.source # "empty"
          /\ payments[p].status = CONFIRMED

\* C17: a WhatsApp input whose digits are a national number of 10 or 11
\* digits, entered without country code, is accepted and stored as '55'
\* followed by exactly those digits; an input that already is '55' followed
\* by 10 or 11 digits is stored unchanged.
C17_WhatsappNormalised ==
    last.op = "whatsapp_clean" =>
        LET digits == SelectSeq(last.arg, LAMBDA c : c \in {"0", "1", "2", "3", "4", "5", "6", "7", "8", "9"})
        IN /\ Len(digits) \in {10, 11} =>
                 /\ last.errors = {}
                 /\ last.value = <<"5", "5">> \o digits
           /\ (Len(digits) \in {12, 13} /\ digits[1] = "5" /\ digits[2] = "5" /\ digits = last.arg) =>
                 /\ last.errors = {}
                 /\ last.value = last.arg

\* the range the claim gives the i-th token of the matched list: p is the
\* number of the token before it, 0 for the first
ClaimedToCover(i) ==
    LET tokens == last.arg[1]
        w == last.arg[2]
        v == TokenCatalogue[tokens[i]].value
        p == IF i = 1 THEN 0 ELSE TokenCatalogue[tokens[i - 1]].value
    IN IF TokenCatalogue[tokens[i]].plus THEN w > p
       ELSE IF p = 0 THEN w <= v
       ELSE p < w /\ w <= v

AscendingToPlus(tokens) ==
    /\ TokenCatalogue[tokens[Len(tokens)]].plus
    /\ \A i \in 1..(Len(tokens) - 1) :
          /\ ~TokenCatalogue[tokens[i]].plus
          /\ TokenCatalogue[tokens[i]].value <= TokenCatalogue[tokens[i + 1]].value

\* C18: matching a weight w against an ordered token list returns the label
\* of the first range that contains w, where a plain token v after upper
\* bound p covers p < w <= v (w <= v for the bottom range) and a '+' token
\* covers every w > p; for ['28', '32', '+32'] weight 28 gets '28', 28.5
\* gets '32' and 40 gets '+32'; for an ascending list ending in a '+' token
\* every weight above 0 falls in exactly one range.
C18_WeightRanges ==
    last.op = "weight_match" =>
        LET tokens == last.arg[1]
            w == last.arg[2]
            covering == {i \in 1..Len(tokens) : ClaimedToCover(i)}
        IN /\ last.hits = covering
           /\ covering # {} =>
                 /\ last.outcome = "none"
                 /\ last.value = TokenCatalogue[tokens[CHOOSE i \in covering : \A j \in covering : i <= j]].text
           /\ covering = {} => last.outcome = "ClassificationError"
           /\ tokens = <<1, 2, 3>> =>
                 /\ w = 280 => last.value = <<"2", "8">>
                 /\ w = 285 => last.value = <<"3", "2">>
                 /\ w = 400 => last.value = <<"+", "3", "2">>
           /\ (AscendingToPlus(tokens) /\ w > 0) => Cardinality(last.hits) = 1

\* 28.5 kg was matched against ['28', '32', '+32'] and got '32'
C18_Witness ==
    /\ last.op = "weight_match"
    /\ last.arg = << <<1, 2, 3>>, 285 >>
    /\ last.value = <<"3", "2">>
    /\ last.hits = {2}

\* C19: every view of the staff surface redirects an anonymous request to
\* the login page and answers an authenticated non-staff request with 403,
\* the event create and update views redirecting it to the dashboard; in all
\* these cases nothing of the view is run.
C19_StaffOnly ==
    (last.op = "staff_view" /\ last.user # "staff") =>
        /\ last.user = "anonymous" => (last.outcome = "login" /\ last.code = 302)
        /\ last.user = "member" =>
              IF last.view \in {"EventCreateView", "EventUpdateView"}
              THEN last.outcome = "dashboard" /\ last.code = 302
              ELSE last.code = 403
        /\ last.ran = {}

\* the chunks one after the other
RECURSIVE Flattened(_)
Flattened(chunks) == IF Len(chunks) = 0 THEN <<>> ELSE Head(chunks) \o Flattened(Tail(chunks))

\* the brackets hold the sorted group, each athlete once and in order, none
\* above the capacity 2^max_fights_per_athlete
SplitsInOrder ==
    /\ Flattened(last.value) = [i \in 1..last.arg[1] |-> i]
    /\ \A k \in DOMAIN last.value : Len(last.value[k]) <= Pow2(last.arg[2])

NoSingleton == \A k \in DOMAIN last.value : Len(last.value[k]) # 1

\* C21 as stated: for every group of n >= 2 athletes and every
\* max_fights_per_athlete the consecutive brackets hold each athlete once in
\* sorted order, each has at most 2^max_fights_per_athlete entries, and no
\* bracket has exactly one entry.
C21_ChunksNoSingleton ==
    (last.op = "chunks" /\ last.arg[1] >= 2) => (SplitsInOrder /\ NoSingleton)

\* C21 amended: as above, a bracket of exactly one entry being excluded only
\* when max_fights_per_athlete is at least 2 (a capacity of at least 4).
C21_ChunksOfCapacity ==
    (last.op = "chunks" /\ last.arg[1] >= 2) =>
        (SplitsInOrder /\ (last.arg[2] >= 2 => NoSingleton))

\* a group of one athlete more than the capacity, split into two brackets
\* with the last athlete of the first moved to the second
C21_Witness ==
    /\ last.op = "chunks"
    /\ last.arg[2] >= 2
    /\ last.arg[1] = Pow2(last.arg[2]) + 1
    /\ Len(last.value) = 2
    /\ Len(last.value[1]) = Pow2(last.arg[2]) - 1
    /\ Len(last.value[2]) = 2

\* what the self-service resend does to registration r, observed on a step
ResendEffect(r) ==
    IF Events[registrations[r].event].is_free
    THEN /\ payments' = payments
         /\ last'.gwCalls = 0
         /\ registrations'[r].status = RegConfirmed
    ELSE IF registrations[r].status = RegConfirmed
    THEN /\ last'.gwCalls = 0
         /\ payments' = payments
         /\ registrations'[r].status = RegConfirmed
    ELSE last'.outcome = "ok" =>
            /\ last'.gwCalls = 1
            /\ PaymentsOf(payments', r) # {}
            /\ registrations'[r].status = RegPending

\* C22: the staff 'resend' action has the effect of the self-service resend
\* in every registration state: no payment and a confirmed registration for
\* a free event, no gateway call and an unchanged status for a confirmed
\* registration of a paid event, otherwise a new or refreshed payment and a
\* pending registration.
C22_StaffResendAsSelfService ==
    [][last'.op = "staff_resend" => ResendEffect(last'.reg)]_vars

\* the request is an authorized notification of a received or confirmed
\* payment whose id the gateway issued for registration r
PaidNotification(req, r) ==
    /\ HasValidToken(req[1], webhookToken)
    /\ req[2].kind = "payment"
    /\ req[2].status \in {RECEIVED, CONFIRMED}
    /\ \E n \in DOMAIN issued : req[2].id = GwId(n) /\ issued[n] = r

\* C23: an authorized webhook with status RECEIVED or CONFIRMED for a
\* payment id the gateway issued for a registration confirms that
\* registration, also when a resend for the registration was processed
\* between the issuing of the id and the delivery of the webhook.
C23_PaidWebhookConfirms ==
    [][\A req \in WebhookRequests : \A r \in DOMAIN registrations :
          (PaidNotification(req, r) /\ AsaasWebhook(req[1], req[2])) =>
              registrations'[r].status = RegConfirmed]_vars

\* bracket b as a request finds it: no entry in a temporary slot, and a
\* match tree when there are two entries or more
NoTemporarySlot(b) ==
    \A x \in EntriesOf(entries, b) : entries[x].slot <= Cardinality(EntriesOf(entries, b))

TreePresent(b) ==
    Cardinality(EntriesOf(entries, b)) >= 2 => MatchesOf(matches, b) # {}

\* C24: manual reseeding is all-or-nothing: no concurrent request observes,
\* and no failure between its steps leaves, a bracket with an entry in a
\* temporary slot (greater than the entry count) or with its match tree
\* deleted and not rebuilt.
C24_ReseedAllOrNothing ==
    /\ last.op = "bracket_detail" =>
          /\ \A i \in DOMAIN last.value : last.value[i] <= Len(last.value)
          /\ Len(last.value) >= 2 => last.hits # {}
    /\ (last.op = "manual_edit" /\ last.outcome = "failed") =>
          (NoTemporarySlot(last.bracket) /\ TreePresent(last.bracket))

\* C25: deleting a metric by the staff delete view always succeeds and
\* removes, by cascade, every bracket generated with the metric together
\* with its entries and matches; afterwards no bracket, entry or match
\* refers to the deleted metric.
C25_MetricDeleteCascades ==
    (last.op = "metric_delete" /\ last.code # 404) =>
        /\ last.code = 302
        /\ last.arg[1] \notin metricRows
        /\ BracketsOfMetric(brackets, last.arg[1]) = {}
        /\ \A x \in DOMAIN entries : entries[x].bracket \in DOMAIN brackets
        /\ \A x \in DOMAIN matches : matches[x].bracket \in DOMAIN brackets

\* C26: a registration submission that validation rejects, or that is
\* rolled back after a gateway failure, leaves no partial state: it creates
\* no registration, no payment, no Academy and no Coach.
C26_RejectedLeavesNothing ==
    [][(last'.op \in {"single", "bulk"}
        /\ last'.outcome \in {"invalid", "config_error", "gateway_error"}) =>
          /\ registrations' = registrations
          /\ payments' = payments
          /\ academies' = academies
          /\ coaches' = coaches]_vars

\* C27: in every state reachable by registration, self-service and staff
\* resend, manual confirmation and webhook operations, a registration of a
\* non-free event is confirmed only if it has a Payment whose status is
\* RECEIVED or CONFIRMED.
C27_ConfirmedOnlyIfPaid ==
    \A r \in DOMAIN registrations :
        (~Events[registrations[r].event].is_free /\ registrations[r].status = RegConfirmed) =>
            \E p \in PaymentsOf(payments, r) : IsPaid(payments[p])

\* C28: in every reachable state every Payment's status is one of the 13
\* values of the Payment status enumeration, whatever status string the
\* gateway returns at creation or sends in a webhook.
C28_StatusInEnumeration ==
    \A p \in DOMAIN payments : payments[p].status \in PaymentStatus

\* the number of rounds of the match tree of bracket b
Rounds(b) ==
    LET S == {matches[x].round_number : x \in MatchesOf(matches, b)}
    IN IF S = {} THEN 0 ELSE CHOOSE r \in S : \A q \in S : q <= r

\* C29: for every bracket, after generation and after any valid manual
\* reorder, the number of rounds of its match tree is at most the bracket's
\* max_fights.
C29_RoundsWithinMaxFights ==
    \A b \in DOMAIN brackets : Rounds(b) <= brackets[b].max_fights

\* a bracket reordered by hand whose tree has as many rounds as max_fights
\* allows, more than one
C29_Witness ==
    /\ last.op = "manual_edit"
    /\ last.outcome = "none"
    /\ brackets[last.bracket].is_manual
    /\ Rounds(last.bracket) = brackets[last.bracket].max_fights
    /\ Rounds(last.bracket) >= 2

\* the corners of round-1 matches of bracket b that entry x occupies
CornersOf(b, x) ==
    {<<m, c>> \in MatchesOf(matches, b) \X {"blue", "red"} :
        /\ matches[m].round_number = 1
        /\ x = IF c = "blue" THEN matches[m].blue_entry ELSE matches[m].red_entry}

\* source match s of a match of round r is a match of bracket b in round r - 1
FedFrom(b, s, r) == s \in MatchesOf(matches, b) /\ matches[s].round_number = r - 1

WellFormedTree(b) ==
    /\ \A x \in EntriesOf(entries, b) : Cardinality(CornersOf(b, x)) = 1
    /\ \A m \in MatchesOf(matches, b) :
          matches[m].round_number > 1 =>
              /\ FedFrom(b, matches[m].blue_source_match, matches[m].round_number)
              /\ matches[m].red_source_match # 0 =>
                    FedFrom(b, matches[m].red_source_match, matches[m].round_number)
    /\ Cardinality({m \in MatchesOf(matches, b) : matches[m].round_number = Rounds(b)}) = 1
    /\ \A m \in MatchesOf(matches, b) :
          matches[m].round_number = Rounds(b) => RoundLabel(m) = "Final"

\* C30: for every bracket with at least two entries, after generation and
\* after any valid manual reorder, each entry occupies exactly one corner of
\* exactly one round-1 match, every later-round match has its blue source
\* (and its red source, when present) in the round directly before it, the
\* highest round has exactly one match, and that match is labelled 'Final'.
C30_WellFormedTree ==
    \A b \in DOMAIN brackets :
        Cardinality(EntriesOf(entries, b)) >= 2 => WellFormedTree(b)

\* a bracket of five, reordered by hand: three rounds, a bye in round 1 and
\* a match of round 2 with one source only
C30_Witness ==
    /\ last.op = "manual_edit"
    /\ last.outcome = "none"
    /\ Cardinality(EntriesOf(entries, last.bracket)) = 5
    /\ Rounds(last.bracket) = 3
    /\ \E m \in MatchesOf(matches, last.bracket) :
          matches[m].round_number = 2 /\ matches[m].red_source_match = 0
    /\ BySlot(entries, EntriesOf(entries, last.bracket)) # Ascending(EntriesOf(entries, last.bracket))

====
